---- MODULE Spec2Model ----
(***************************************************************************)
(* A model of the destaquesgovbr scraper: the storage gateway              *)
(* (PostgresManager.insert, StorageAdapter.insert), source resolution      *)
(* (yaml_config.load_urls_from_yaml), the batch coordinators               *)
(* (ScrapeManager.run_scraper, EBCScrapeManager.run_scraper), the HTTP     *)
(* entry points (api.scrape_agencies, api.scrape_ebc) and the event        *)
(* publisher (EventPublisher.publish_scraped).                             *)
(***************************************************************************)
EXTENDS Integers, Sequences, FiniteSets, TLC

VARIABLES
    news,    \* the committed rows of table "news" (a set of rows)
    txn,     \* per connection: the PostgresManager.insert call it runs
    locks,   \* unique_id -> connection holding the row lock (0: nobody)
    clock,   \* the database clock; NOW() of a transaction is its start time
    request, \* the HTTP request served, with the endpoint that received it
    world,   \* URL -> what the site at that URL answers during the run
    before,  \* table "news" as it was when the request arrived
    run,     \* what run_scraper did and returned for the request
    response, \* the HTTP response
    call,     \* the storage gateway call made last, with what it did
    publisher \* the EventPublisher, the messages sent and the calls made

storeVars == <<news, txn, locks, clock>>
apiVars == <<request, world, before, run, response>>
apiVarsButRun == <<request, world, before, response>>
gatewayVars == <<call, publisher>>
vars == <<news, txn, locks, clock, request, world, before, run, response,
          call, publisher>>

----------------------------------------------------------------------------
(* Bounds *)

\* the largest batch handed to one PostgresManager.insert call
MaxBatch == 2

\* the longest "agencies" list of a request
MaxAgencies == 2

----------------------------------------------------------------------------
(* The news table and PostgresManager.insert                               *)

\* two database connections, each running at most one insert call;
\* connection 1 is the one whose call begins first
Conns == {1, 2}

UniqueIds == {"k1", "k2"}

\* the columns of the INSERT statement that the model keeps; title, url,
\* tags, ... are overwritten on conflict exactly as content is
columns == <<"unique_id", "agency_id", "title", "content", "published_at", "agency_key">>

ColumnSet == {columns[i] : i \in 1..Len(columns)}

\* a NewsInsert: variant v differs from the other variant in every column
\* but unique_id
NewsInsert(k, v) ==
    [c \in ColumnSet |->
        CASE c = "unique_id" -> k
          [] c = "agency_id" -> v
          [] c = "content" -> 10 + v
          [] c = "published_at" -> 20 + v
          [] OTHER -> 30 + v]

\* the records offered to insert: two variants of k1, one of k2
NewsInserts == {NewsInsert("k1", 1), NewsInsert("k1", 2), NewsInsert("k2", 1)}

RECURSIVE SeqsUpTo(_, _)
SeqsUpTo(S, n) ==
    IF n = 0 THEN {<<>>}
    ELSE LET shorter == SeqsUpTo(S, n - 1)
         IN  shorter \cup {Append(s, x) : s \in {t \in shorter : Len(t) = n - 1}, x \in S}

Batches == SeqsUpTo(NewsInserts, MaxBatch)

KeysOf(rows) == {r.unique_id : r \in rows}

SeqKeys(values) == {values[i].unique_id : i \in 1..Len(values)}

\* the row a plain INSERT of n creates: updated_at is not in the column
\* list, so it takes the column default (0 here)
InsertedRow(n) ==
    [c \in ColumnSet \cup {"updated_at"} |-> IF c = "updated_at" THEN 0 ELSE n[c]]

update_cols_keepnothing ==
    {columns[i] : i \in {j \in 1..Len(columns) : columns[j] \notin {"unique_id"}}}

\* update_cols: every column but the three the upsert never overwrites
update_cols ==
    {columns[i] : i \in {j \in 1..Len(columns) :
        columns[j] \notin {"unique_id", "agency_id", "published_at"}}}

\* ON CONFLICT (unique_id) DO UPDATE SET c = EXCLUDED.c ..., updated_at = NOW()
DoUpdate(old, n, now) ==
    [c \in ColumnSet \cup {"updated_at"} |->
        IF c \in update_cols THEN n[c]
        ELSE IF c = "updated_at" THEN now
        ELSE old[c]]

\* execute_values(cur, sql, argslist, template=None, page_size=100): the
\* call in insert leaves page_size at its default; every page of VALUES is
\* one INSERT statement
page_size == 100

\* the state of one transaction: rows inserted, rows updated (by key), the
\* error raised, all uncommitted; and of its last statement: the cursor's
\* rowcount and the keys of the rows the statement affected
NoWrites == [ins |-> {}, upd |-> {}, rowcount |-> 0, error |-> "", statement |-> {}]

\* row i of VALUES opens a new page: cursor.execute() of the next statement
\* replaces the cursor's rowcount
NextPage(st, i) ==
    IF i > 1 /\ (i - 1) % page_size = 0
    THEN [st EXCEPT !.rowcount = 0, !.statement = {}]
    ELSE st

\* the row with key k a statement sees: its own write, else the committed row
Visible(table, st, k) ==
    IF k \in KeysOf(st.upd) THEN {r \in st.upd : r.unique_id = k}
    ELSE IF k \in KeysOf(st.ins) THEN {r \in st.ins : r.unique_id = k}
    ELSE {r \in table : r.unique_id = k}

OnConflictOverwrite(table, st, n, allow_update, now) ==
    LET k == n.unique_id
        seen == Visible(table, st, k)
    IN  IF seen = {}
        THEN [st EXCEPT !.ins = @ \cup {InsertedRow(n)}, !.rowcount = @ + 1,
                        !.statement = @ \cup {k}]
        ELSE [st EXCEPT !.upd = {r \in @ : r.unique_id # k}
                                    \cup {DoUpdate(CHOOSE r \in seen : TRUE, n, now)},
                        !.rowcount = @ + 1, !.statement = @ \cup {k}]

\* one row of VALUES under the statement's ON CONFLICT clause
OnConflict(table, st, n, allow_update, now) ==
    LET k == n.unique_id
        seen == Visible(table, st, k)
    IN  IF seen = {}
        THEN [st EXCEPT !.ins = @ \cup {InsertedRow(n)}, !.rowcount = @ + 1,
                        !.statement = @ \cup {k}]
        ELSE IF ~allow_update
        THEN st    \* DO NOTHING
        ELSE IF k \in st.statement
        THEN \* "ON CONFLICT DO UPDATE command cannot affect row a second time"
             [st EXCEPT !.error = "CardinalityViolation"]
        ELSE \* a row written by an earlier statement of the transaction is
             \* updated like a committed one
             [st EXCEPT !.upd = {r \in @ : r.unique_id # k}
                                    \cup {DoUpdate(CHOOSE r \in seen : TRUE, n, now)},
                        !.rowcount = @ + 1, !.statement = @ \cup {k}]

\* conn.commit(): the transaction's writes become the committed rows
Committed(table, st) ==
    {r \in table \cup st.ins : r.unique_id \notin KeysOf(st.upd)} \cup st.upd

\* a connection before its insert call; conn counts the connections the
\* call holds from the pool
Idle ==
    [pc |-> "idle", values |-> <<>>, allow_update |-> FALSE, i |-> 1, now |-> 0,
     st |-> NoWrites, before |-> {}, conn |-> 0]

\* no request has arrived
NoRequest ==
    [endpoint |-> "", given |-> FALSE, agencies |-> <<>>, sequential |-> TRUE,
     allow_update |-> FALSE]

NoResponse == [status_code |-> 0]

\* run_scraper's locals before its first statement, with the table it
\* writes to, the scrapers it builds and the scrapers it has called
NoRun ==
    [articles_scraped |-> 0, articles_saved |-> 0, agencies_processed |-> <<>>,
     errors |-> <<>>, all_news_data |-> <<>>, raised |-> "",
     table |-> {}, webscrapers |-> <<>>, called |-> <<>>, returned |-> <<>>]

\* what a call of the storage gateway leaves behind: whether it raised,
\* the count it returned, the table, the connections it took from the pool
\* and the lists it handed to PostgresManager.insert
NoResult ==
    [raised |-> "", inserted |-> 0, table |-> {}, get_connection |-> 0,
     insert_calls |-> <<>>]

\* no call of the storage gateway has been made
NoCall ==
    [op |-> "", manager |-> "", items |-> <<>>, allow_update |-> FALSE,
     result |-> NoResult]

\* a publish_scraped call that has published nothing
NoPublishCall ==
    [inserted_ids |-> <<>>, failures |-> <<>>, trace_id |-> "", attempts |-> <<>>,
     returned |-> 0, raised |-> ""]

\* an EventPublisher without topic and client, with the number of uuids
\* drawn so far, the trace_id of every publish_scraped call made ("" for a
\* call that drew none) and the last call in full
NoPublisher ==
    [topic |-> "", client |-> "None", enabled |-> FALSE, init_raised |-> "",
     uuids |-> 0, calls |-> <<>>, last |-> NoPublishCall]

StoreInit ==
    /\ news = {}
    /\ txn = [p \in Conns |-> Idle]
    /\ locks = [k \in UniqueIds |-> 0]
    /\ clock = 0
    /\ request = NoRequest
    /\ world = <<>>
    /\ before = {}
    /\ run = NoRun
    /\ response = NoResponse
    /\ call = NoCall
    /\ publisher = NoPublisher

\* insert(news, allow_update): "if not news: raise ValueError", else take a
\* connection and start the statement
insert(p, values, allow_update) ==
    /\ txn[p].pc = "idle"
    /\ \A q \in Conns : q < p => txn[q].pc # "idle"
    /\ IF values = <<>>
       THEN /\ txn' = [txn EXCEPT ![p] =
                        [@ EXCEPT !.pc = "raised", !.st.error = "ValueError"]]
            /\ UNCHANGED <<news, locks, clock, apiVars, gatewayVars>>
       ELSE /\ clock' = clock + 1
            /\ txn' = [txn EXCEPT ![p] =
                        [Idle EXCEPT !.pc = "exec", !.values = values,
                                     !.allow_update = allow_update,
                                     !.now = clock + 1,
                                     !.before = KeysOf(news),
                                     !.conn = 1]]
            /\ UNCHANGED <<news, locks, apiVars, gatewayVars>>

NeverBlocked(p) == FALSE

\* the next row of the statement waits while another open transaction holds
\* the lock of its key
Blocked(p) ==
    /\ txn[p].pc = "exec"
    /\ txn[p].i <= Len(txn[p].values)
    /\ locks[txn[p].values[txn[p].i].unique_id] \notin {0, p}

\* execute_values(cursor, insert_query, values), one row of VALUES
execute_values(p) ==
    /\ txn[p].pc = "exec"
    /\ txn[p].i <= Len(txn[p].values)
    /\ ~Blocked(p)
    /\ LET t == txn[p]
           n == t.values[t.i]
           st == OnConflict(news, NextPage(t.st, t.i), n, t.allow_update, t.now)
       IN  IF st.error # ""
           THEN \* except Exception: conn.rollback(); raise
                /\ txn' = [txn EXCEPT ![p] =
                            [@ EXCEPT !.pc = "raised", !.conn = 0,
                                      !.st = [NoWrites EXCEPT !.error = st.error]]]
                /\ locks' = [k \in UniqueIds |-> IF locks[k] = p THEN 0 ELSE locks[k]]
           ELSE /\ txn' = [txn EXCEPT ![p] = [@ EXCEPT !.i = @ + 1, !.st = st]]
                /\ locks' = [k \in UniqueIds |->
                              IF k \in KeysOf(st.ins) \cup KeysOf(st.upd) THEN p
                              ELSE locks[k]]
    /\ UNCHANGED <<news, clock, apiVars, gatewayVars>>

\* inserted = cursor.rowcount; conn.commit(); return inserted
commit(p) ==
    /\ txn[p].pc = "exec"
    /\ txn[p].i > Len(txn[p].values)
    /\ news' = Committed(news, txn[p].st)
    /\ txn' = [txn EXCEPT ![p] = [@ EXCEPT !.pc = "returned", !.conn = 0]]
    /\ locks' = [k \in UniqueIds |-> IF locks[k] = p THEN 0 ELSE locks[k]]
    /\ UNCHANGED <<clock, apiVars, gatewayVars>>

rollback_keeps_writes(p, error) ==
    /\ txn[p].pc = "exec"
    /\ error = "DeadlockDetected" =>
            \E q \in Conns \ {p} : Blocked(p) /\ Blocked(q)
    /\ news' = Committed(news, txn[p].st)
    /\ txn' = [txn EXCEPT ![p] =
                [@ EXCEPT !.pc = "raised", !.conn = 0,
                          !.st = [NoWrites EXCEPT !.error = error]]]
    /\ locks' = [k \in UniqueIds |-> IF locks[k] = p THEN 0 ELSE locks[k]]
    /\ UNCHANGED <<clock, apiVars, gatewayVars>>

\* except Exception: conn.rollback(); raise -- the database reports an error
\* (connection loss, or a deadlock between two waiting transactions)
rollback(p, error) ==
    /\ txn[p].pc = "exec"
    /\ error = "DeadlockDetected" =>
            \E q \in Conns \ {p} : Blocked(p) /\ Blocked(q)
    /\ txn' = [txn EXCEPT ![p] =
                [@ EXCEPT !.pc = "raised", !.conn = 0,
                          !.st = [NoWrites EXCEPT !.error = error]]]
    /\ locks' = [k \in UniqueIds |-> IF locks[k] = p THEN 0 ELSE locks[k]]
    /\ UNCHANGED <<news, clock, apiVars, gatewayVars>>

StoreNext ==
    \/ \E p \in Conns, values \in Batches, allow_update \in BOOLEAN :
            insert(p, values, allow_update)
    \/ \E p \in Conns : execute_values(p)
    \/ \E p \in Conns : commit(p)
    \/ \E p \in Conns, error \in {"OperationalError", "DeadlockDetected"} :
            rollback(p, error)

SpecStore == StoreInit /\ [][StoreNext]_vars

----------------------------------------------------------------------------
(* Source configuration and resolution: yaml_config.py and its copy in     *)
(* EBCScrapeManager                                                        *)

\* the "agencies" mapping of a configuration file, in file order; a scalar
\* of the file is written as its YAML text ("true", "false")
ConfigFile(file_name) ==
    IF file_name = "site_urls.yaml"
    THEN << [key |-> "mec", data |-> [url |-> "https://www.gov.br/mec/pt-br/noticias"]],
            [key |-> "mma", data |-> [url |-> "https://www.gov.br/mma/pt-br/noticias",
                                      active |-> "true"]],
            [key |-> "cisc", data |-> [url |-> "https://www.gov.br/pt-br/noticias",
                                       active |-> "false",
                                       disabled_reason |-> "URL problematica"]],
            [key |-> "inep", data |-> [url |-> "https://www.gov.br/inep/pt-br/noticias",
                                       active |-> "true"]] >>
    ELSE << [key |-> "agencia_brasil",
             data |-> [url |-> "https://agenciabrasil.ebc.com.br/ultimas"]],
            [key |-> "memoria-ebc",
             data |-> [url |-> "https://memoria.ebc.com.br/noticias", active |-> "false"]],
            [key |-> "tvbrasil",
             data |-> [url |-> "https://tvbrasil.ebc.com.br/noticias", active |-> "true"]] >>

ConfigKeys(agencies) == {agencies[i].key : i \in 1..Len(agencies)}

Lookup(agencies, agency) ==
    (CHOOSE i \in 1..Len(agencies) : agencies[i].key = agency)

\* Python truth of a configuration scalar or of a string
Truthy(v) == v \notin {"", "false", "null"}

is_agency_inactive_failclosed(agency_data) ==
    IF "active" \in DOMAIN agency_data THEN ~Truthy(agency_data.active) ELSE TRUE

\* is_active = agency_data.get("active", True); return not is_active
is_agency_inactive(agency_data) ==
    LET is_active == IF "active" \in DOMAIN agency_data
                     THEN Truthy(agency_data.active) ELSE TRUE
    IN  ~is_active

extract_url(agency_data) == agency_data.url

RECURSIVE ActiveUrls(_, _)
\* "Load all active agencies": the loop over agencies.items()
ActiveUrls(agencies, i) ==
    IF i > Len(agencies) THEN <<>>
    ELSE IF is_agency_inactive(agencies[i].data) THEN ActiveUrls(agencies, i + 1)
    ELSE <<extract_url(agencies[i].data)>> \o ActiveUrls(agencies, i + 1)

\* load_urls_from_yaml(config_dir, file_name, agency); agency "" stands for
\* every falsy argument (None, ""). raised is the ValueError's message.
load_urls_from_yaml(file_name, agency) ==
    LET agencies == ConfigFile(file_name)
    IN  IF Truthy(agency)
        THEN IF agency \notin ConfigKeys(agencies)
             THEN [raised |-> "not found", urls |-> <<>>]
             ELSE IF is_agency_inactive(agencies[Lookup(agencies, agency)].data)
             THEN [raised |-> "inactive", urls |-> <<>>]
             ELSE [raised |-> "",
                   urls |-> <<extract_url(agencies[Lookup(agencies, agency)].data)>>]
        ELSE [raised |-> "", urls |-> ActiveUrls(agencies, 1)]

RECURSIVE LoadEach(_, _, _, _)
\* "for agency in agencies: try: ... except ValueError as e: errors.append"
LoadEach(file_name, agencies, i, acc) ==
    IF i > Len(agencies) THEN acc
    ELSE LET r == load_urls_from_yaml(file_name, agencies[i])
         IN  LoadEach(file_name, agencies, i + 1,
                IF r.raised # ""
                THEN [acc EXCEPT !.errors =
                        Append(@, [agency |-> agencies[i], error |-> r.raised])]
                ELSE [acc EXCEPT !.all_urls = @ \o r.urls])

\* run_scraper, "Load URLs for each agency in the list": agencies is the
\* request's list, given = FALSE when the request has none (None)
ResolveUrls(file_name, given, agencies) ==
    IF given /\ agencies # <<>>
    THEN LoadEach(file_name, agencies, 1, [all_urls |-> <<>>, errors |-> <<>>])
    ELSE [all_urls |-> load_urls_from_yaml(file_name, "").urls, errors |-> <<>>]

----------------------------------------------------------------------------
(* Python values, extraction results and record normalisation              *)

\* a Python value is written <<type, text>>
PyNone == <<"NoneType", "">>
Str(text) == <<"str", text>>
Datetime(iso) == <<"datetime", iso>>

\* bool(value) of a str or None
PyTruthy(v) == v[1] # "NoneType" /\ v[2] # ""

\* dict.get(key, default)
Get(item, key, default) == IF key \in DOMAIN item THEN item[key] ELSE default

\* scraper.agency: the source key of the scraper's URL
agency(url) ==
    LET all == ConfigFile("site_urls.yaml") \o ConfigFile("ebc_urls.yaml")
    IN  all[CHOOSE i \in 1..Len(all) : all[i].data.url = url].key

\* the identifier a manager reports a scraper under: scraper.agency in
\* ScrapeManager, scraper.base_url in EBCScrapeManager
ReportedAs(manager, url) == IF manager = "ScrapeManager" THEN agency(url) ELSE url

FileOf(manager) == IF manager = "ScrapeManager" THEN "site_urls.yaml" ELSE "ebc_urls.yaml"

\* what a site answers during one run
SiteStates == {"raise", "empty", "news", "nul", "rejected"}

\* an extracted item of the site at url
Item(manager, url, title, content) ==
    IF manager = "ScrapeManager"
    THEN [agency |-> Str(agency(url)), title |-> Str(title), url |-> Str(url \o "/" \o title),
          content |-> Str(content), published_at |-> Datetime("2026-02-10T17:05:00-03:00")]
    ELSE [agency |-> Str(agency(url)), title |-> Str(title), url |-> Str(url \o "/" \o title),
          content |-> Str(content),
          published_datetime |-> Datetime("2026-02-10T17:05:00-03:00"),
          error |-> Str("")]

\* an extracted item whose publication timestamp no strategy resolved
UndatedItem(manager, url, title) ==
    IF manager = "ScrapeManager"
    THEN [Item(manager, url, title, "body") EXCEPT !.published_at = PyNone]
    ELSE [Item(manager, url, title, "body") EXCEPT !.published_datetime = PyNone]

\* scraper.scrape_news(): raises, or returns the items of the date window.
\* Content "nul" holds a NUL character (the driver refuses it with
\* ValueError), content "rejected" is a value the table refuses (DataError);
\* a site "undated" shows an item without any date.
scrape_news(manager, url, site) ==
    [raised |-> site = "raise",
     data |-> CASE site = "news" ->
                    <<Item(manager, url, "t1", "body"), Item(manager, url, "t2", "body")>>
                [] site = "nul" ->
                    <<Item(manager, url, "t1", "body"), Item(manager, url, "t3", "nul")>>
                [] site = "rejected" ->
                    <<Item(manager, url, "t1", "body"), Item(manager, url, "t4", "rejected")>>
                [] site = "undated" ->
                    <<Item(manager, url, "t1", "body"), UndatedItem(manager, url, "t5")>>
                [] OTHER -> <<>>]

\* hashlib.md5(hash_input).hexdigest(), taken to be free of collisions
md5(hash_input) == <<"md5", hash_input>>

\* published_at_value.isoformat() if it is a date, else str(published_at_value)
date_str(published_at_value) ==
    IF published_at_value[1] = "NoneType" THEN "None" ELSE published_at_value[2]

generate_unique_id_salted(agency_name, published_at_value, title) ==
    md5(agency_name \o "_" \o date_str(published_at_value) \o "_" \o title
            \o "_" \o ToString(clock))

generate_unique_id(agency_name, published_at_value, title) ==
    md5(agency_name \o "_" \o date_str(published_at_value) \o "_" \o title)

\* item["unique_id"] = self._generate_unique_id(...)
WithUniqueId(item) ==
    [key \in DOMAIN item \cup {"unique_id"} |->
        IF key = "unique_id"
        THEN generate_unique_id(Get(item, "agency", Str(""))[2],
                                Get(item, "published_at", Str("")),
                                Get(item, "title", Str(""))[2])
        ELSE item[key]]

\* _preprocess_data: unique ids, then the columns of data[0]; EBC's version
\* returns no column for an empty list
preprocess_data(data) ==
    LET d == [i \in 1..Len(data) |-> WithUniqueId(data[i])]
    IN  IF Len(d) = 0 THEN [key \in {} |-> <<>>]
        ELSE [key \in DOMAIN d[1] |-> [i \in 1..Len(d) |-> Get(d[i], key, PyNone)]]

\* str.strip() on the texts of the model
strip(v) ==
    CASE v[2] = " " -> Str("")
      [] v[2] = " t1 " -> Str("t1")
      [] OTHER -> v

ConvertedItem_fabricated(item) ==
    [title |-> strip(Get(item, "title", Str(""))),
     url |-> strip(Get(item, "url", Str(""))),
     published_at |-> IF PyTruthy(Get(item, "published_datetime", PyNone))
                      THEN item.published_datetime ELSE Datetime("2026-11-01T00:00:00-03:00"),
     content |-> strip(Get(item, "content", Str(""))),
     agency |-> Get(item, "agency", Str("ebc"))]

\* x or None
OrNone(v) == IF PyTruthy(v) THEN v ELSE PyNone

ConvertedItem_raw_lead(item) ==
    [title |-> strip(Get(item, "title", Str(""))),
     url |-> strip(Get(item, "url", Str(""))),
     published_at |-> IF PyTruthy(Get(item, "published_datetime", PyNone))
                      THEN item.published_datetime ELSE PyNone,
     updated_datetime |-> Get(item, "updated_datetime", PyNone),
     category |-> Str("Noticias"),
     tags |-> Get(item, "tags", <<"list", "">>),
     editorial_lead |-> Get(item, "editorial_lead", Str("")),
     subtitle |-> PyNone,
     content |-> strip(Get(item, "content", Str(""))),
     image |-> strip(Get(item, "image", Str(""))),
     video_url |-> strip(Get(item, "video_url", Str(""))),
     agency |-> Get(item, "agency", Str("ebc")),
     extracted_at |-> Datetime("now")]

\* one item of _convert_ebc_to_govbr_format; extracted_at is the time of
\* the call
ConvertedItem(item) ==
    [title |-> strip(Get(item, "title", Str(""))),
     url |-> strip(Get(item, "url", Str(""))),
     published_at |-> IF PyTruthy(Get(item, "published_datetime", PyNone))
                      THEN item.published_datetime ELSE PyNone,
     updated_datetime |-> Get(item, "updated_datetime", PyNone),
     category |-> Str("Noticias"),
     tags |-> Get(item, "tags", <<"list", "">>),
     editorial_lead |-> OrNone(strip(Get(item, "editorial_lead", Str("")))),
     subtitle |-> PyNone,
     content |-> strip(Get(item, "content", Str(""))),
     image |-> strip(Get(item, "image", Str(""))),
     video_url |-> strip(Get(item, "video_url", Str(""))),
     agency |-> Get(item, "agency", Str("ebc")),
     extracted_at |-> Datetime("now")]

RECURSIVE convert_ebc_to_govbr_format(_, _)
\* _convert_ebc_to_govbr_format(ebc_data), from item i on
convert_ebc_to_govbr_format(ebc_data, i) ==
    IF i > Len(ebc_data) THEN <<>>
    ELSE LET item == ebc_data[i]
             rest == convert_ebc_to_govbr_format(ebc_data, i + 1)
             converted_item == ConvertedItem(item)
         IN  IF PyTruthy(Get(item, "error", PyNone)) THEN rest
             ELSE IF PyTruthy(converted_item.title) /\ PyTruthy(converted_item.url)
                        /\ PyTruthy(converted_item.content)
             THEN <<converted_item>> \o rest
             ELSE rest

----------------------------------------------------------------------------
(* StorageAdapter.insert and a PostgresManager.insert that runs alone      *)

\* PostgresManager._agencies_by_key, loaded from table agencies
agencies_by_key ==
    [k \in {"mec", "mma", "cisc", "inep", "agencia_brasil", "tvbrasil"} |->
        CASE k = "mec" -> 1 [] k = "mma" -> 2 [] k = "cisc" -> 3 [] k = "inep" -> 4
          [] k = "agencia_brasil" -> 5 [] OTHER -> 6]

\* datetime.fromisoformat accepts the text
IsIso(text) == text \in {"2026-02-10T17:05:00-03:00", "2026-02-11T00:00:00-03:00"}

RECURSIVE convert_to_news_insert_abort(_, _)
convert_to_news_insert_abort(data, i) ==
    LET num_records == IF "unique_id" \in DOMAIN data THEN Len(data.unique_id) ELSE 0
        safe_get(field, default) ==
            IF field \in DOMAIN data /\ i <= Len(data[field]) THEN data[field][i] ELSE default
        published_at == safe_get("published_at", PyNone)
        agency_key == safe_get("agency", Str(""))
    IN  IF i > num_records THEN <<>>
        ELSE IF published_at = PyNone THEN <<>>
        ELSE IF published_at[1] = "str" /\ ~IsIso(published_at[2]) THEN <<>>
        ELSE IF agency_key[2] \notin DOMAIN agencies_by_key THEN <<>>
        ELSE IF safe_get("title", Str(""))[1] # "str" THEN <<>>
        ELSE << [c \in ColumnSet |->
                    CASE c = "unique_id" -> safe_get("unique_id", Str(""))
                      [] c = "agency_id" -> agencies_by_key[agency_key[2]]
                      [] c = "title" -> safe_get("title", Str(""))
                      [] c = "content" -> safe_get("content", PyNone)
                      [] c = "published_at" -> Datetime(published_at[2])
                      [] OTHER -> agency_key] >>
                \o convert_to_news_insert_abort(data, i + 1)

RECURSIVE convert_to_news_insert(_, _)
\* _convert_to_news_insert(data), from record i on
convert_to_news_insert(data, i) ==
    LET num_records == IF "unique_id" \in DOMAIN data THEN Len(data.unique_id) ELSE 0
        safe_get(field, default) ==
            IF field \in DOMAIN data /\ i <= Len(data[field]) THEN data[field][i] ELSE default
        published_at == safe_get("published_at", PyNone)
        agency_key == safe_get("agency", Str(""))
    IN  IF i > num_records THEN <<>>
        ELSE LET rest == convert_to_news_insert(data, i + 1)
             IN  IF published_at = PyNone THEN rest
                 ELSE IF published_at[1] = "str" /\ ~IsIso(published_at[2]) THEN rest
                 ELSE IF agency_key[2] \notin DOMAIN agencies_by_key THEN rest
                 ELSE IF safe_get("title", Str(""))[1] # "str" THEN rest
                 ELSE << [c \in ColumnSet |->
                            CASE c = "unique_id" -> safe_get("unique_id", Str(""))
                              [] c = "agency_id" -> agencies_by_key[agency_key[2]]
                              [] c = "title" -> safe_get("title", Str(""))
                              [] c = "content" -> safe_get("content", PyNone)
                              [] c = "published_at" -> Datetime(published_at[2])
                              [] OTHER -> agency_key] >> \o rest

RECURSIVE ExecuteAll(_, _, _, _, _, _)
\* execute_values on a table no other transaction writes to
ExecuteAll(table, st, values, i, allow_update, now) ==
    IF i > Len(values) \/ st.error # "" THEN st
    ELSE ExecuteAll(table, OnConflict(table, NextPage(st, i), values[i], allow_update, now),
                    values, i + 1, allow_update, now)

\* the error the driver or the table raises for the values themselves
StatementError(values) ==
    IF \E i \in 1..Len(values) : values[i].content = Str("nul") THEN "ValueError"
    ELSE IF \E i \in 1..Len(values) : values[i].content = Str("rejected") THEN "DataError"
    ELSE ""

\* the end of PostgresManager.insert: rollback and raise, or commit and
\* return cursor.rowcount
Finished(table, st, statement_error) ==
    IF statement_error # ""
    THEN [NoResult EXCEPT !.raised = statement_error, !.table = table,
                          !.get_connection = 1]
    ELSE IF st.error # ""
    THEN [NoResult EXCEPT !.raised = st.error, !.table = table, !.get_connection = 1]
    ELSE [NoResult EXCEPT !.inserted = st.rowcount, !.table = Committed(table, st),
                          !.get_connection = 1]

PostgresManager_insert_empty_ok(table, values, allow_update, now) ==
    Finished(table, ExecuteAll(table, NoWrites, values, 1, allow_update, now),
             StatementError(values))

\* PostgresManager.insert(news, allow_update) as one step
PostgresManager_insert(table, values, allow_update, now) ==
    IF values = <<>>
    THEN [NoResult EXCEPT !.raised = "ValueError", !.table = table]
    ELSE Finished(table, ExecuteAll(table, NoWrites, values, 1, allow_update, now),
                  StatementError(values))

InsertNewsList_swallow(table, news_list, allow_update, now) ==
    IF news_list = <<>>
    THEN [NoResult EXCEPT !.table = table]
    ELSE [PostgresManager_insert(table, news_list, allow_update, now)
            EXCEPT !.insert_calls = <<news_list>>, !.raised = ""]

\* StorageAdapter.insert after _convert_to_news_insert
InsertNewsList(table, news_list, allow_update, now) ==
    IF news_list = <<>>
    THEN [NoResult EXCEPT !.table = table]
    ELSE [PostgresManager_insert(table, news_list, allow_update, now)
            EXCEPT !.insert_calls = <<news_list>>]

\* StorageAdapter.insert(new_data, allow_update)
StorageAdapter_insert(table, new_data, allow_update, now) ==
    InsertNewsList(table, convert_to_news_insert(new_data, 1), allow_update, now)

\* _process_and_upload_data(new_data, allow_update): EBCScrapeManager
\* converts to the gov.br format first
process_and_upload_data(manager, table, new_data, allow_update, now) ==
    StorageAdapter_insert(table,
        preprocess_data(IF manager = "ScrapeManager" THEN new_data
                        ELSE convert_ebc_to_govbr_format(new_data, 1)),
        allow_update, now)

----------------------------------------------------------------------------
(* run_scraper of ScrapeManager and EBCScrapeManager, and the endpoints    *)

AgencyError(label, error) == [agency |-> label, error |-> error]

SequentialStored_both(acc, label, scraped_data, saved) ==
    IF saved.raised # ""
    THEN [acc EXCEPT !.articles_scraped = @ + Len(scraped_data),
                     !.agencies_processed = Append(@, label),
                     !.errors = Append(@, AgencyError(label, saved.raised))]
    ELSE [acc EXCEPT !.articles_scraped = @ + Len(scraped_data),
                     !.articles_saved = @ + saved.inserted,
                     !.returned = Append(@, saved.inserted),
                     !.agencies_processed = Append(@, label),
                     !.table = saved.table]

SequentialStored_propagate(acc, label, scraped_data, saved) ==
    IF saved.raised # ""
    THEN [acc EXCEPT !.articles_scraped = @ + Len(scraped_data),
                     !.raised = saved.raised]
    ELSE [acc EXCEPT !.articles_scraped = @ + Len(scraped_data),
                     !.articles_saved = @ + saved.inserted,
                     !.returned = Append(@, saved.inserted),
                     !.agencies_processed = Append(@, label),
                     !.table = saved.table]

SequentialStored_last(acc, label, scraped_data, saved) ==
    IF saved.raised # ""
    THEN [acc EXCEPT !.articles_scraped = @ + Len(scraped_data),
                     !.errors = Append(@, AgencyError(label, saved.raised))]
    ELSE [acc EXCEPT !.articles_scraped = @ + Len(scraped_data),
                     !.articles_saved = saved.inserted,
                     !.returned = Append(@, saved.inserted),
                     !.agencies_processed = Append(@, label),
                     !.table = saved.table]

\* a sequential iteration after _process_and_upload_data returned or raised:
\* articles_scraped was added to before the call
SequentialStored(acc, label, scraped_data, saved) ==
    IF saved.raised # ""
    THEN [acc EXCEPT !.articles_scraped = @ + Len(scraped_data),
                     !.errors = Append(@, AgencyError(label, saved.raised))]
    ELSE [acc EXCEPT !.articles_scraped = @ + Len(scraped_data),
                     !.articles_saved = @ + saved.inserted,
                     !.returned = Append(@, saved.inserted),
                     !.agencies_processed = Append(@, label),
                     !.table = saved.table]

\* a sequential iteration after scrape_news returned or raised; the
\* database clock reads i when scraper i's data is stored
SequentialScraped(manager, label, allow_update, i, acc, scraped) ==
    IF scraped.raised
    THEN [acc EXCEPT !.errors = Append(@, AgencyError(label, "ScrapingError"))]
    ELSE IF scraped.data # <<>>
    THEN SequentialStored(acc, label, scraped.data,
            process_and_upload_data(manager, acc.table, scraped.data, allow_update, i))
    ELSE [acc EXCEPT !.agencies_processed = Append(@, label)]

RECURSIVE Sequential(_, _, _, _, _, _)
\* "if sequential: for scraper in webscrapers: try: ...", from scraper i on
Sequential(manager, webscrapers, i, allow_update, sites, acc) ==
    IF i > Len(webscrapers) THEN acc
    ELSE Sequential(manager, webscrapers, i + 1, allow_update, sites,
            SequentialScraped(manager, ReportedAs(manager, webscrapers[i]), allow_update, i,
                              [acc EXCEPT !.called = Append(@, webscrapers[i])],
                              scrape_news(manager, webscrapers[i], sites[webscrapers[i]])))

CollectScraped_silent(label, acc, scraped) ==
    IF scraped.raised THEN acc
    ELSE IF scraped.data # <<>>
    THEN [acc EXCEPT !.all_news_data = @ \o scraped.data,
                     !.agencies_processed = Append(@, label)]
    ELSE [acc EXCEPT !.agencies_processed = Append(@, label)]

CollectScraped_propagate(label, acc, scraped) ==
    IF scraped.raised THEN [acc EXCEPT !.raised = "ScrapingError"]
    ELSE IF scraped.data # <<>>
    THEN [acc EXCEPT !.all_news_data = @ \o scraped.data,
                     !.agencies_processed = Append(@, label)]
    ELSE [acc EXCEPT !.agencies_processed = Append(@, label)]

\* a bulk iteration after scrape_news returned or raised
CollectScraped(label, acc, scraped) ==
    IF scraped.raised
    THEN [acc EXCEPT !.errors = Append(@, AgencyError(label, "ScrapingError"))]
    ELSE IF scraped.data # <<>>
    THEN [acc EXCEPT !.all_news_data = @ \o scraped.data,
                     !.agencies_processed = Append(@, label)]
    ELSE [acc EXCEPT !.agencies_processed = Append(@, label)]

RECURSIVE Collect(_, _, _, _, _)
\* "else: all_news_data = []; for scraper in webscrapers: try: ..."
Collect(manager, webscrapers, i, sites, acc) ==
    IF i > Len(webscrapers) THEN acc
    ELSE Collect(manager, webscrapers, i + 1, sites,
            CollectScraped(ReportedAs(manager, webscrapers[i]),
                           [acc EXCEPT !.called = Append(@, webscrapers[i])],
                           scrape_news(manager, webscrapers[i], sites[webscrapers[i]])))

BulkStored_uncommitted(acc, saved) ==
    IF saved.raised = ""
    THEN [acc EXCEPT !.articles_scraped = Len(acc.all_news_data),
                     !.articles_saved = saved.inserted,
                     !.returned = Append(@, saved.inserted)]
    ELSE IF saved.raised = "ValueError"
    THEN [acc EXCEPT !.articles_scraped = Len(acc.all_news_data),
                     !.errors = Append(@, AgencyError("config", saved.raised))]
    ELSE [acc EXCEPT !.articles_scraped = Len(acc.all_news_data),
                     !.raised = saved.raised]

\* the bulk branch after its one _process_and_upload_data returned or
\* raised: a ValueError is caught by run_scraper's outer handler, any other
\* error leaves run_scraper
BulkStored(acc, saved) ==
    IF saved.raised = ""
    THEN [acc EXCEPT !.articles_scraped = Len(acc.all_news_data),
                     !.articles_saved = saved.inserted,
                     !.returned = Append(@, saved.inserted),
                     !.table = saved.table]
    ELSE IF saved.raised = "ValueError"
    THEN [acc EXCEPT !.articles_scraped = Len(acc.all_news_data),
                     !.errors = Append(@, AgencyError("config", saved.raised))]
    ELSE [acc EXCEPT !.articles_scraped = Len(acc.all_news_data),
                     !.raised = saved.raised]

\* the bulk branch after its loop: "if all_news_data:" store once, when the
\* database clock reads now
BulkCollected(manager, allow_update, now, acc) ==
    IF acc.all_news_data = <<>> THEN acc
    ELSE BulkStored(acc, process_and_upload_data(manager, acc.table, acc.all_news_data,
                                                 allow_update, now))

Bulk(manager, webscrapers, allow_update, sites, acc) ==
    BulkCollected(manager, allow_update, Len(webscrapers),
                  Collect(manager, webscrapers, 1, sites, acc))

\* the locals after "Load URLs for each agency in the list"
Resolved(resolved, table) ==
    [NoRun EXCEPT !.errors = resolved.errors,
                  !.webscrapers = resolved.all_urls,
                  !.table = table]

\* run_scraper(min_date, max_date, sequential, allow_update, agencies)
run_scraper(manager, req, sites, table) ==
    IF req.sequential
    THEN Sequential(manager, ResolveUrls(FileOf(manager), req.given, req.agencies).all_urls,
                    1, req.allow_update, sites,
                    Resolved(ResolveUrls(FileOf(manager), req.given, req.agencies), table))
    ELSE Bulk(manager, ResolveUrls(FileOf(manager), req.given, req.agencies).all_urls,
              req.allow_update, sites,
              Resolved(ResolveUrls(FileOf(manager), req.given, req.agencies), table))

status_errors_only(metrics) ==
    IF metrics.errors # <<>> THEN "failed" ELSE "completed"

\* the status of the response: "if errors and not agencies_processed ...
\* elif errors ... else ..."
status(metrics) ==
    IF metrics.errors # <<>> /\ metrics.agencies_processed = <<>> THEN "failed"
    ELSE IF metrics.errors # <<>> THEN "partial"
    ELSE "completed"

\* HTTPException(500) when run_scraper raised, else the ScrapeResponse
Respond(metrics) ==
    IF metrics.raised # ""
    THEN [status_code |-> 500, detail |-> metrics.raised]
    ELSE [status_code |-> 200, status |-> status(metrics),
          articles_scraped |-> metrics.articles_scraped,
          articles_saved |-> metrics.articles_saved,
          agencies_processed |-> metrics.agencies_processed,
          errors |-> metrics.errors]

ManagerOf(endpoint) ==
    IF endpoint = "/scrape/agencies" THEN "ScrapeManager" ELSE "EBCScrapeManager"

\* the values of "agencies" elements tried: configured keys, the empty
\* string and a key no file configures
AgencyNames(manager) ==
    IF manager = "ScrapeManager"
    THEN {"mec", "mma", "cisc", "", "nonexistent_agency_xyz"}
    ELSE {"agencia_brasil", "tvbrasil", "memoria-ebc", "", "nonexistent_agency_xyz"}

\* request bodies: "agencies" absent (None) or a list
Requests(endpoint) ==
    {[endpoint |-> endpoint, given |-> FALSE, agencies |-> <<>>,
      sequential |-> s, allow_update |-> u] : s \in BOOLEAN, u \in BOOLEAN}
    \cup
    {[endpoint |-> endpoint, given |-> TRUE, agencies |-> a,
      sequential |-> s, allow_update |-> u] :
        a \in SeqsUpTo(AgencyNames(ManagerOf(endpoint)), MaxAgencies),
        s \in BOOLEAN, u \in BOOLEAN}

UrlsOf(all_urls) == {all_urls[i] : i \in 1..Len(all_urls)}

\* the table an earlier run left after storing item "t1" of the site at url
StoredBefore(manager, url) ==
    process_and_upload_data(manager, {}, <<Item(manager, url, "t1", "old")>>, FALSE, 0).table

\* table "news" when the request arrives: empty, or holding one row of a
\* gov.br source and one of an EBC source
Tables ==
    {{}, StoredBefore("ScrapeManager", "https://www.gov.br/mec/pt-br/noticias")
            \cup StoredBefore("EBCScrapeManager", "https://agenciabrasil.ebc.com.br/ultimas")}

Init ==
    /\ news \in Tables
    /\ txn = [p \in Conns |-> Idle]
    /\ locks = [k \in UniqueIds |-> 0]
    /\ clock = 0
    /\ request = NoRequest
    /\ world = <<>>
    /\ before = news
    /\ run = NoRun
    /\ response = NoResponse
    /\ call = NoCall
    /\ publisher = NoPublisher

\* the sites seen with an item that shows no date
UndatedSites ==
    {"https://www.gov.br/mec/pt-br/noticias", "https://agenciabrasil.ebc.com.br/ultimas"}

SitesFor(req) ==
    {sites \in [UrlsOf(ResolveUrls(FileOf(ManagerOf(req.endpoint)), req.given,
                                   req.agencies).all_urls)
                    -> SiteStates \cup {"undated"}] :
        \A url \in DOMAIN sites : sites[url] = "undated" => url \in UndatedSites}

\* one endpoint call: StorageAdapter(), the manager, run_scraper, the
\* response. A behaviour serves one request.
Serve(req, sites) ==
    \E metrics \in {run_scraper(ManagerOf(req.endpoint), req, sites, news)} :
        /\ request' = req
        /\ world' = sites
        /\ before' = news
        /\ run' = metrics
        /\ news' = metrics.table
        /\ response' = Respond(metrics)
        /\ UNCHANGED <<txn, locks, clock, gatewayVars>>

\* POST /scrape/agencies
scrape_agencies ==
    /\ request = NoRequest
    /\ \E req \in Requests("/scrape/agencies") : \E sites \in SitesFor(req) :
            Serve(req, sites)

\* POST /scrape/ebc
scrape_ebc ==
    /\ request = NoRequest
    /\ \E req \in Requests("/scrape/ebc") : \E sites \in SitesFor(req) :
            Serve(req, sites)

Next ==
    \/ scrape_agencies
    \/ scrape_ebc

Spec == Init /\ [][Next]_vars

----------------------------------------------------------------------------
(* The storage gateway called once: _process_and_upload_data of either     *)
(* manager on a list of extracted items, and PostgresManager.insert on a   *)
(* list of records                                                         *)

\* the longest list of extracted items handed to _process_and_upload_data
MaxItems == 3

\* the source whose items are uploaded
SourceUrl(manager) ==
    IF manager = "ScrapeManager" THEN "https://www.gov.br/mec/pt-br/noticias"
    ELSE "https://agenciabrasil.ebc.com.br/ultimas"

\* the key of the publication timestamp in an extracted item
DateKey(manager) ==
    IF manager = "ScrapeManager" THEN "published_at" ELSE "published_datetime"

\* the shapes an extracted item takes: complete ("t1", "t2"), a field
\* empty, the error marker set, the timestamp unresolved or no ISO text, a
\* source key the agencies table does not hold, a body with a NUL character
ItemShapes ==
    {"t1", "t2", "no_title", "no_url", "no_body", "marked", "undated", "bad_date",
     "foreign", "nul"}

\* an extracted item of the given shape
ExtractedItem(manager, shape) ==
    LET item == Item(manager, SourceUrl(manager),
                     IF shape = "no_title" THEN "" ELSE shape,
                     CASE shape = "no_body" -> "" [] shape = "nul" -> "nul"
                       [] OTHER -> "body")
    IN  [key \in DOMAIN item \cup {"error"} |->
            CASE key = "error" -> IF shape = "marked" THEN Str("timeout") ELSE Str("")
              [] key = "url" /\ shape = "no_url" -> Str("")
              [] key = DateKey(manager) /\ shape = "undated" -> PyNone
              [] key = DateKey(manager) /\ shape = "bad_date" -> Str("ontem")
              [] key = "agency" /\ shape = "foreign" -> Str("unknown_agency")
              [] OTHER -> item[key]]

ItemLists(manager) ==
    {[i \in DOMAIN shapes |-> ExtractedItem(manager, shapes[i])] :
        shapes \in SeqsUpTo(ItemShapes, MaxItems) \ {<<>>}}

\* the NewsInsert made of the complete item with title "t<i>" of the gov.br
\* source
NewsOf(i) ==
    convert_to_news_insert(
        preprocess_data(<<Item("ScrapeManager", SourceUrl("ScrapeManager"),
                               "t" \o ToString(i), "body")>>), 1)[1]

\* the lists handed to PostgresManager.insert: none, short ones, one page
\* of execute_values, one record more than a page (in both orders), and a
\* list with the same record twice
InsertLists ==
    {[i \in 1..n |-> NewsOf(i)] : n \in {0, 1, MaxBatch, page_size, page_size + 1}}
        \cup {[i \in 1..(page_size + 1) |-> NewsOf(page_size + 2 - i)],
              <<NewsOf(1), NewsOf(1)>>}

GatewayInit ==
    /\ news \in Tables
    /\ txn = [p \in Conns |-> Idle]
    /\ locks = [k \in UniqueIds |-> 0]
    /\ clock = 0
    /\ request = NoRequest
    /\ world = <<>>
    /\ before = news
    /\ run = NoRun
    /\ response = NoResponse
    /\ call = NoCall
    /\ publisher = NoPublisher

\* manager._process_and_upload_data(new_data, allow_update), which ends in
\* StorageAdapter.insert; the adapter holds no EventPublisher
Upload(manager, new_data, allow_update) ==
    /\ call' = [NoCall EXCEPT !.op = "_process_and_upload_data",
                              !.manager = manager, !.items = new_data,
                              !.allow_update = allow_update,
                              !.result = process_and_upload_data(manager, news, new_data,
                                                                  allow_update, 1)]
    /\ news' = call'.result.table
    /\ UNCHANGED <<txn, locks, clock, apiVars, publisher>>

\* one call of _process_and_upload_data of either manager
UploadData ==
    /\ call = NoCall
    /\ \E manager \in {"ScrapeManager", "EBCScrapeManager"}, allow_update \in BOOLEAN :
            \E new_data \in ItemLists(manager) : Upload(manager, new_data, allow_update)

\* PostgresManager.insert(news, allow_update) called on its own
InsertRecords(values, allow_update) ==
    /\ call' = [NoCall EXCEPT !.op = "PostgresManager.insert",
                              !.allow_update = allow_update,
                              !.result = [PostgresManager_insert(news, values, allow_update, 1)
                                            EXCEPT !.insert_calls = <<values>>]]
    /\ news' = call'.result.table
    /\ UNCHANGED <<txn, locks, clock, apiVars, publisher>>

\* one call of PostgresManager.insert
InsertNews ==
    /\ call = NoCall
    /\ \E values \in InsertLists, allow_update \in BOOLEAN :
            InsertRecords(values, allow_update)

GatewayNext ==
    \/ UploadData
    \/ InsertNews

SpecGateway == GatewayInit /\ [][GatewayNext]_vars

----------------------------------------------------------------------------
(* EventPublisher: construction and publish_scraped                        *)

\* the longest list of records handed to one publish_scraped call
MaxRecords == 2

\* the number of publish_scraped calls made on one EventPublisher
MaxCalls == 2

EventPublisher_unguarded(topic, client_available) ==
    IF topic = "" THEN NoPublisher
    ELSE IF client_available
    THEN [NoPublisher EXCEPT !.topic = topic, !.client = "PublisherClient",
                             !.enabled = TRUE]
    ELSE [NoPublisher EXCEPT !.topic = topic, !.init_raised = "ImportError"]

\* EventPublisher(): enabled when PUBSUB_TOPIC_NEWS_SCRAPED is set (and not
\* empty) and the Pub/Sub client can be created; the import or the client's
\* constructor failing is caught and leaves the publisher disabled
EventPublisher(topic, client_available) ==
    IF topic = "" THEN NoPublisher
    ELSE IF client_available
    THEN [NoPublisher EXCEPT !.topic = topic, !.client = "PublisherClient",
                             !.enabled = TRUE]
    ELSE [NoPublisher EXCEPT !.topic = topic]

\* the records of inserted articles handed to publish_scraped: with a
\* datetime, an ISO text or None as published_at, without agency_key, and
\* without unique_id
MetaRecords ==
    {[unique_id |-> Str("mec-2026-01-01-noticia-1"), agency_key |-> Str("mec"),
      published_at |-> Datetime("2026-01-01T12:00:00+00:00")],
     [unique_id |-> Str("mds-2026-01-02-noticia-2"), agency_key |-> Str("mds"),
      published_at |-> Str("2026-03-15T10:00:00+00:00")],
     [unique_id |-> Str("test-1"), agency_key |-> Str("mec"), published_at |-> PyNone],
     [unique_id |-> Str("test-2"), published_at |-> Str("2026-01-01")],
     [agency_key |-> Str("mec"), published_at |-> Str("2026-01-01")]}

\* str(uuid.uuid4()): the n-th value drawn, taken to differ from every
\* value drawn before
uuid4(n) == "uuid-" \o ToString(n)

Message_raw(article) ==
    [unique_id |-> article.unique_id,
     agency_key |-> Get(article, "agency_key", PyNone),
     published_at |-> Get(article, "published_at", PyNone),
     scraped_at |-> Str("2026-11-01T12:00:00+00:00")]

\* the message of one article: published_at.isoformat() of a datetime,
\* "published_at or ''" otherwise; scraped_at is the UTC time of the pass
Message(article) ==
    LET published_at == Get(article, "published_at", PyNone)
    IN  [unique_id |-> article.unique_id,
         agency_key |-> Get(article, "agency_key", Str("")),
         published_at |-> IF published_at[1] = "datetime" THEN Str(published_at[2])
                          ELSE IF PyTruthy(published_at) THEN published_at
                          ELSE Str(""),
         scraped_at |-> Str("2026-11-01T12:00:00+00:00")]

NoMessage ==
    [unique_id |-> Str(""), agency_key |-> Str(""), published_at |-> Str(""),
     scraped_at |-> Str("")]

Attempt_own_trace(article, trace_id, fails) ==
    IF "unique_id" \notin DOMAIN article
    THEN [sent |-> FALSE, ok |-> FALSE, trace_id |-> trace_id,
          event_version |-> "1.0", message |-> NoMessage]
    ELSE [sent |-> TRUE, ok |-> ~fails, trace_id |-> trace_id \o article.unique_id[2],
          event_version |-> "1.0", message |-> Message(article)]

\* one pass of the loop body: article["unique_id"] raises KeyError before
\* the client is called; self._client.publish is called and fails or not
Attempt(article, trace_id, fails) ==
    IF "unique_id" \notin DOMAIN article
    THEN [sent |-> FALSE, ok |-> FALSE, trace_id |-> trace_id,
          event_version |-> "1.0", message |-> NoMessage]
    ELSE [sent |-> TRUE, ok |-> ~fails, trace_id |-> trace_id,
          event_version |-> "1.0", message |-> Message(article)]

publish_scraped_uncaught(self, inserted_ids, failures) ==
    LET trace_id == uuid4(self.uuids + 1)
        attempts == [i \in DOMAIN inserted_ids |->
                        Attempt(inserted_ids[i], trace_id, failures[i])]
        failed == {i \in DOMAIN attempts : ~attempts[i].ok}
        stop == IF failed = {} THEN Len(attempts)
                ELSE CHOOSE i \in failed : \A j \in failed : i <= j
    IN  IF ~self.enabled \/ inserted_ids = <<>>
        THEN [self EXCEPT !.calls = Append(@, ""),
                          !.last = [NoPublishCall EXCEPT !.inserted_ids = inserted_ids,
                                                         !.failures = failures]]
        ELSE [self EXCEPT !.uuids = @ + 1, !.calls = Append(@, trace_id),
                          !.last = [inserted_ids |-> inserted_ids, failures |-> failures,
                                    trace_id |-> trace_id,
                                    attempts |-> SubSeq(attempts, 1, stop),
                                    returned |-> 0,
                                    raised |-> IF failed = {} THEN "" ELSE "Exception"]]

\* publish_scraped(inserted_ids); failures[i] tells whether the client's
\* publish of message i raises
publish_scraped(self, inserted_ids, failures) ==
    LET trace_id == uuid4(self.uuids + 1)
        attempts == [i \in DOMAIN inserted_ids |->
                        Attempt(inserted_ids[i], trace_id, failures[i])]
    IN  IF ~self.enabled \/ inserted_ids = <<>>
        THEN [self EXCEPT !.calls = Append(@, ""),
                          !.last = [NoPublishCall EXCEPT !.inserted_ids = inserted_ids,
                                                         !.failures = failures]]
        ELSE [self EXCEPT !.uuids = @ + 1, !.calls = Append(@, trace_id),
                          !.last = [inserted_ids |-> inserted_ids, failures |-> failures,
                                    trace_id |-> trace_id,
                                    attempts |-> attempts,
                                    returned |-> Cardinality({i \in DOMAIN attempts :
                                                                attempts[i].ok}),
                                    raised |-> ""]]

PublishInit ==
    /\ news = {}
    /\ txn = [p \in Conns |-> Idle]
    /\ locks = [k \in UniqueIds |-> 0]
    /\ clock = 0
    /\ request = NoRequest
    /\ world = <<>>
    /\ before = {}
    /\ run = NoRun
    /\ response = NoResponse
    /\ call = NoCall
    /\ publisher \in {EventPublisher(topic, client_available) :
                        topic \in {"", "projects/p/topics/dgb.news.scraped"},
                        client_available \in BOOLEAN}

\* one publish_scraped call on the publisher
PublishScraped ==
    /\ Len(publisher.calls) < MaxCalls
    /\ \E inserted_ids \in SeqsUpTo(MetaRecords, MaxRecords) :
            \E failures \in [DOMAIN inserted_ids -> BOOLEAN] :
                publisher' = publish_scraped(publisher, inserted_ids, failures)
    /\ UNCHANGED <<storeVars, apiVars, call>>

PublishNext == PublishScraped

SpecPublish == PublishInit /\ [][PublishNext]_vars

----------------------------------------------------------------------------
(* Claims about PostgresManager.insert, checked under SpecStore            *)

UniqueKey == \A r1, r2 \in news : r1.unique_id = r2.unique_id => r1 = r2

Returned == {p \in Conns : txn[p].pc = "returned"}

C1_StoredOnce ==
    (\A p \in Conns : ~txn[p].allow_update) =>
        /\ UniqueKey
        /\ KeysOf(news) = UNION {SeqKeys(txn[p].values) : p \in Returned}
        /\ \A p \in Returned :
                SeqKeys(txn[p].values) \subseteq txn[p].before => txn[p].st.rowcount = 0

C1_RowsUntouched ==
    \A p \in Conns :
        (txn[p].pc = "exec" /\ txn'[p].pc = "returned" /\ ~txn[p].allow_update)
            => news \subseteq news'

\* C1: with allow_update = false in every call, the table holds exactly one
\* row per unique_id of the batches inserted, a commit leaves every row that
\* was already stored as it was (updated_at included), and a call whose keys
\* were all stored when it began returns 0.
C1_InsertOrIgnore == []C1_StoredOnce /\ [][C1_RowsUntouched]_vars

\* a call re-inserted a stored key with different column values and returned 0
C1_Witness ==
    \E p \in Returned :
        /\ \A q \in Conns : ~txn[q].allow_update
        /\ txn[p].before # {}
        /\ SeqKeys(txn[p].values) \subseteq txn[p].before
        /\ \E i \in 1..Len(txn[p].values) : InsertedRow(txn[p].values[i]) \notin news
        /\ txn[p].st.rowcount = 0

\* C2: when no insert call is in flight and every call ran with
\* allow_update = false, the table (empty at first) has one row per key and
\* the counts returned add up to the number of rows: each key is counted by
\* exactly one call, whatever the interleaving of the two statements.
C2_AtMostOnce ==
    /\ UniqueKey
    /\ (\A p \in Conns : txn[p].pc \in {"idle", "returned", "raised"} /\ ~txn[p].allow_update)
        => /\ KeysOf(news) = UNION {SeqKeys(txn[p].values) : p \in Returned}
           /\ (IF 1 \in Returned THEN txn[1].st.rowcount ELSE 0)
                + (IF 2 \in Returned THEN txn[2].st.rowcount ELSE 0)
              = Cardinality(KeysOf(news))

\* both calls began on the empty table (so they overlapped), share a key,
\* and both returned
C2_Witness ==
    /\ Returned = Conns
    /\ \A p \in Conns : ~txn[p].allow_update /\ txn[p].before = {}
    /\ SeqKeys(txn[1].values) \cap SeqKeys(txn[2].values) # {}
    /\ \E p \in Conns : txn[p].st.rowcount = 0

C3_Frame ==
    \A p \in Conns :
        (txn[p].pc = "exec" /\ txn'[p].pc = "returned" /\ txn[p].allow_update) =>
            \A old \in news :
                old.unique_id \in SeqKeys(txn[p].values) =>
                    \E new \in news' :
                        /\ \A r \in news' : r.unique_id = old.unique_id => r = new
                        /\ new.unique_id = old.unique_id
                        /\ new.agency_id = old.agency_id
                        /\ new.published_at = old.published_at
                        /\ \E i \in 1..Len(txn[p].values) :
                            /\ txn[p].values[i].unique_id = old.unique_id
                            /\ new.content = txn[p].values[i].content
                            /\ new.agency_key = txn[p].values[i].agency_key

\* C3: a committed insert with allow_update = true leaves, for every stored
\* row whose unique_id is in the batch, one row with the stored unique_id,
\* agency_id and published_at and with the batch record's other columns.
C3_UpdateInvariant == [][C3_Frame]_vars

\* a stored row was overwritten by a record that differed in every column
C3_Witness ==
    \E p \in Returned, r \in news :
        /\ txn[p].allow_update
        /\ r.unique_id \in txn[p].before
        /\ r.updated_at = txn[p].now
        /\ \E i \in 1..Len(txn[p].values) :
            /\ txn[p].values[i].unique_id = r.unique_id
            /\ txn[p].values[i].content = r.content
            /\ txn[p].values[i].agency_id # r.agency_id
            /\ txn[p].values[i].published_at # r.published_at

----------------------------------------------------------------------------
(* Claims about run_scraper, source resolution and the endpoints, checked  *)
(* under Spec                                                              *)

\* a request has been served
Done == request # NoRequest

Manager == ManagerOf(request.endpoint)

Elements(seq) == {seq[i] : i \in 1..Len(seq)}

Count(seq, x) == Cardinality({i \in 1..Len(seq) : seq[i] = x})

NoDuplicates(seq) == Cardinality(Elements(seq)) = Len(seq)

\* the identifiers of the error entries
ErrorLabels == [i \in 1..Len(run.errors) |-> run.errors[i].agency]

\* the errors raised by the store step
StorageErrors == {"ValueError", "DataError", "CardinalityViolation"}

\* what the scraper of url extracted in the run
Extracted(url) == scrape_news(Manager, url, world[url])

\* the scrapers of the run but scraper b, as they are reported
RECURSIVE LabelsBut(_, _)
LabelsBut(b, i) ==
    IF i > Len(run.webscrapers) THEN <<>>
    ELSE IF i = b THEN LabelsBut(b, i + 1)
    ELSE <<ReportedAs(Manager, run.webscrapers[i])>> \o LabelsBut(b, i + 1)

\* scraper b is the only scraper of the run whose extraction throws, and
\* nothing else fails: every requested key resolved, the other sources
\* answer with no news or with news
OnlyFailure(b) ==
    /\ ResolveUrls(FileOf(Manager), request.given, request.agencies).errors = <<>>
    /\ Len(run.webscrapers) >= 2
    /\ NoDuplicates(run.webscrapers)
    /\ world[run.webscrapers[b]] = "raise"
    /\ \A a \in 1..Len(run.webscrapers) :
            a # b => world[run.webscrapers[a]] \in {"empty", "news"}

\* C4: an exception thrown by one source's extraction never prevents
\* another source of the run from being extracted, in sequential and in
\* bulk mode: every scraper built is called. When exactly one source B of
\* several throws (and nothing else fails), the other sources are listed
\* in agencies_processed, errors has one entry, for B, and the response
\* status is "partial".
C4_PartialFailureIsolation ==
    Done =>
        /\ run.called = run.webscrapers
        /\ \A b \in 1..Len(run.webscrapers) :
                OnlyFailure(b) =>
                    /\ response.status_code = 200
                    /\ response.agencies_processed = LabelsBut(b, 1)
                    /\ Len(response.errors) = 1
                    /\ response.errors[1].agency = ReportedAs(Manager, run.webscrapers[b])
                    /\ response.status = "partial"

\* three sources A, B, C in bulk mode, B's extraction throws, the response
\* is partial
C4_Witness ==
    /\ Done
    /\ ~request.sequential
    /\ Len(run.webscrapers) = 3
    /\ OnlyFailure(2)
    /\ world[run.webscrapers[1]] = "news"
    /\ world[run.webscrapers[3]] = "empty"
    /\ response.status_code = 200
    /\ response.status = "partial"
    /\ Len(response.agencies_processed) = 2

\* C5: whenever run_scraper returns, every source a scraper was built for
\* has been appended once to exactly one of agencies_processed and errors
\* (a source built twice: twice in all), and a source that yields no item
\* is in agencies_processed.
C5_ExactlyOneOutcome ==
    (Done /\ run.raised = "") =>
        \A url \in Elements(run.webscrapers) :
            /\ Count(run.agencies_processed, ReportedAs(Manager, url))
                    + Count(ErrorLabels, ReportedAs(Manager, url))
                 = Count(run.webscrapers, url)
            /\ (~Extracted(url).raised /\ Extracted(url).data = <<>>) =>
                    /\ Count(run.agencies_processed, ReportedAs(Manager, url))
                            = Count(run.webscrapers, url)
                    /\ Count(ErrorLabels, ReportedAs(Manager, url)) = 0

\* a sequential run in which one source yields no item, one source's
\* extraction throws and one source's store step raises
C5_Witness ==
    /\ Done
    /\ run.raised = ""
    /\ request.sequential
    /\ \E u1, u2, u3 \in Elements(run.webscrapers) :
            /\ world[u1] = "empty"
            /\ world[u2] = "raise"
            /\ world[u3] = "rejected"
            /\ ReportedAs(Manager, u1) \in Elements(run.agencies_processed)
            /\ ReportedAs(Manager, u2) \in Elements(ErrorLabels)
            /\ ReportedAs(Manager, u3) \in Elements(ErrorLabels)

RECURSIVE ExtractedFromProcessed(_)
\* the number of items extracted by the scrapers from i on whose source is
\* listed in agencies_processed
ExtractedFromProcessed(i) ==
    IF i > Len(run.webscrapers) THEN 0
    ELSE (IF ReportedAs(Manager, run.webscrapers[i]) \in Elements(run.agencies_processed)
          THEN Len(Extracted(run.webscrapers[i]).data) ELSE 0)
         + ExtractedFromProcessed(i + 1)

\* C6: a source appended to errors does not increment the metrics: when
\* run_scraper returns, articles_scraped is the number of items extracted
\* from the sources listed in agencies_processed, in either mode, also
\* when the failure is raised by the source's store step.
C6_FailureNotCounted ==
    (Done /\ run.raised = "") =>
        run.articles_scraped = ExtractedFromProcessed(1)

\* the run of the other mode on the same resolved sources, the same
\* extraction results and the same table
OtherMode == run_scraper(Manager, [request EXCEPT !.sequential = ~@], world, before)

\* a store step raised during the run
StoreRaised(metrics) ==
    \/ metrics.raised # ""
    \/ \E i \in 1..Len(metrics.errors) : metrics.errors[i].error \in StorageErrors

\* the rows without the time of their last update
Contents(table) == {[c \in ColumnSet |-> r[c]] : r \in table}

C8_StatusTotal ==
    (Done /\ response.status_code = 200) =>
        /\ response.status \in {"failed", "partial", "completed"}
        /\ response.status = "failed" <=>
                (response.errors # <<>> /\ response.agencies_processed = <<>>)
        /\ response.status = "partial" <=>
                (response.errors # <<>> /\ response.agencies_processed # <<>>)
        /\ response.status = "completed" <=> response.errors = <<>>
        /\ response.errors = run.errors
        /\ response.agencies_processed = run.agencies_processed

\* POST /scrape/ebc answers "partial"
C8_Witness ==
    /\ Done
    /\ request.endpoint = "/scrape/ebc"
    /\ response.status_code = 200
    /\ response.status = "partial"
    /\ response.errors # <<>>
    /\ response.agencies_processed # <<>>

\* the configuration entries of the manager's file
Configured == ConfigFile(FileOf(Manager))

\* the entry of key has "active: false"
MarkedInactive(key) ==
    \E i \in 1..Len(Configured) :
        /\ Configured[i].key = key
        /\ "active" \in DOMAIN Configured[i].data
        /\ Configured[i].data.active = "false"

\* the URL of the entry of key
UrlOfKey(key) == Configured[CHOOSE i \in 1..Len(Configured) : Configured[i].key = key].data.url

\* C9: with a non-empty request list each key is handled individually: an
\* unknown key yields one error entry saying "not found", a known inactive
\* key one error entry saying "inactive", a known active key is scraped,
\* whatever the other keys of the list are.
C9_PerKeyResolution ==
    (Done /\ request.given /\ request.agencies # <<>>) =>
        \A key \in Elements(request.agencies) :
            IF key \notin ConfigKeys(Configured)
            THEN Count(run.errors, AgencyError(key, "not found"))
                    = Count(request.agencies, key)
            ELSE IF MarkedInactive(key)
            THEN Count(run.errors, AgencyError(key, "inactive"))
                    = Count(request.agencies, key)
            ELSE UrlOfKey(key) \in Elements(run.called)

\* the URLs of the configured sources whose "active" is absent or true
ActiveSources ==
    {Configured[i].data.url : i \in {j \in 1..Len(Configured) :
        \/ "active" \notin DOMAIN Configured[j].data
        \/ Configured[j].data.active = "true"}}

\* C10: with an empty or absent request list exactly the configured
\* sources that are active are resolved, each once: those whose "active"
\* is absent or true, none whose "active" is false, and no error entry is
\* produced for an excluded source.
C10_AllActive ==
    (Done /\ (~request.given \/ request.agencies = <<>>)) =>
        /\ Elements(run.webscrapers) = ActiveSources
        /\ NoDuplicates(run.webscrapers)
        /\ \A key \in ConfigKeys(Configured) :
                MarkedInactive(key) =>
                    /\ UrlOfKey(key) \notin Elements(run.webscrapers)
                    /\ key \notin Elements(ErrorLabels)
        /\ \A i \in 1..Len(run.errors) :
                run.errors[i].error \notin {"not found", "inactive"}

\* a request without "agencies" resolved to the three active gov.br
\* sources, among them the one without an "active" field
C10_Witness ==
    /\ Done
    /\ ~request.given
    /\ request.endpoint = "/scrape/agencies"
    /\ Len(run.webscrapers) = 3
    /\ "https://www.gov.br/mec/pt-br/noticias" \in Elements(run.webscrapers)
    /\ run.called = run.webscrapers

----------------------------------------------------------------------------
(* Claims about the storage gateway, checked under SpecGateway             *)

\* the lists StorageAdapter.insert or the caller handed to
\* PostgresManager.insert
Handed == call.result.insert_calls

Items == {call.items[i] : i \in DOMAIN call.items}

\* the identity keys of the records handed to PostgresManager.insert
HandedKeys == UNION {SeqKeys(Handed[j]) : j \in DOMAIN Handed}

\* the identity key the manager gives the item
IdOf(manager, item) ==
    generate_unique_id(Get(item, "agency", Str(""))[2],
                       Get(item, DateKey(manager), Str("")),
                       IF manager = "ScrapeManager" THEN Get(item, "title", Str(""))[2]
                       ELSE strip(Get(item, "title", Str("")))[2])

\* title, URL or body missing or empty
Incomplete(item) ==
    \E key \in {"title", "url", "content"} : ~PyTruthy(Get(item, key, PyNone))

\* the error marker is set
Marked(item) == PyTruthy(Get(item, "error", PyNone))

\* an item nothing is wrong with: complete, unmarked, dated, of a known
\* source, with a body the database accepts
Storable(manager, item) ==
    /\ ~Incomplete(item)
    /\ ~Marked(item)
    /\ Get(item, DateKey(manager), PyNone)[1] = "datetime"
    /\ item.agency[2] \in DOMAIN agencies_by_key
    /\ item.content # Str("nul")

\* no two items of the call are the same article
NoItemTwice ==
    \A i, j \in DOMAIN call.items :
        i # j => IdOf(call.manager, call.items[i]) # IdOf(call.manager, call.items[j])

\* C12: on both paths an item whose title, URL or body is missing or empty
\* is not handed to the database insert and is not stored, and a batch
\* of distinct articles whose other items are storable raises no error.
C12_DroppedIncomplete ==
    call.op = "_process_and_upload_data"
        => /\ \A item \in Items : Incomplete(item)
                => /\ IdOf(call.manager, item) \notin HandedKeys
                   /\ IdOf(call.manager, item) \notin KeysOf(news)
           /\ (\A item \in Items : Incomplete(item) \/ Storable(call.manager, item))
                    /\ NoItemTwice
                => call.result.raised = ""

\* C13: on both paths an item whose error marker is set is not handed to
\* the database insert, and the storable items of the same batch are.
C13_DroppedMarked ==
    call.op = "_process_and_upload_data"
        => /\ \A item \in Items : Marked(item)
                => IdOf(call.manager, item) \notin HandedKeys
           /\ \A item \in Items : Storable(call.manager, item)
                => IdOf(call.manager, item) \in HandedKeys

\* the records handed to PostgresManager.insert
HandedRecords == UNION {{Handed[j][k] : k \in DOMAIN Handed[j]} : j \in DOMAIN Handed}

\* the publication timestamp of the extracted item
TimestampOf(manager, item) == Get(item, DateKey(manager), PyNone)

\* C14: every record handed to the database insert carries a datetime, the
\* one of the extracted item it was made of; an item whose timestamp is
\* null is neither handed over nor stored.
C14_TimestampResolved ==
    call.op = "_process_and_upload_data"
        => /\ \A n \in HandedRecords :
                /\ n.published_at[1] = "datetime"
                /\ \E item \in Items :
                        /\ IdOf(call.manager, item) = n.unique_id
                        /\ TimestampOf(call.manager, item) # PyNone
                        /\ TimestampOf(call.manager, item)[2] = n.published_at[2]
           /\ \A item \in Items : TimestampOf(call.manager, item) = PyNone
                => /\ IdOf(call.manager, item) \notin HandedKeys
                   /\ IdOf(call.manager, item) \notin KeysOf(news)

C14_Witness ==
    /\ call.op = "_process_and_upload_data"
    /\ call.manager = "EBCScrapeManager"
    /\ \E item \in Items : TimestampOf(call.manager, item) = PyNone
    /\ \E item \in Items : IdOf(call.manager, item) \in HandedKeys
    /\ call.result.inserted > 0

\* the records StorageAdapter.insert receives, in order
AdapterRecords ==
    IF call.manager = "ScrapeManager" THEN call.items
    ELSE convert_ebc_to_govbr_format(call.items, 1)

\* a record StorageAdapter.insert can convert: a timestamp that is a
\* datetime or an ISO text, and a source key of the agencies table
Convertible(record) ==
    /\ record.published_at # PyNone
    /\ record.published_at[1] = "str" => IsIso(record.published_at[2])
    /\ record.agency[2] \in DOMAIN agencies_by_key

\* the identity keys of the convertible records, in their order
ConvertibleKeys ==
    LET kept == SelectSeq(AdapterRecords, Convertible)
    IN  [i \in DOMAIN kept |-> WithUniqueId(kept[i]).unique_id]

\* C15: StorageAdapter.insert skips a record it cannot convert (unknown
\* source key, null or unparseable timestamp) without raising, and hands
\* every other record of the batch to the database insert, in the original
\* order; with no record left it returns 0 and does not call the database.
C15_DropsAreLocal ==
    call.op = "_process_and_upload_data"
        => IF ConvertibleKeys = <<>>
           THEN Handed = <<>> /\ call.result.raised = "" /\ call.result.inserted = 0
           ELSE /\ Len(Handed) = 1
                /\ [i \in DOMAIN Handed[1] |-> Handed[1][i].unique_id] = ConvertibleKeys

C15_Witness ==
    /\ call.op = "_process_and_upload_data"
    /\ Len(call.items) = 3
    /\ ~Convertible(AdapterRecords[2])
    /\ AdapterRecords[2].agency = Str("unknown_agency")
    /\ Len(Handed) = 1
    /\ Len(Handed[1]) = 2
    /\ Handed[1][1].unique_id # Handed[1][2].unique_id
    /\ call.result.inserted = 2

\* C16: the count a storage insert returns is the number of rows the whole
\* batch inserted or updated; without allow_update it is the number of
\* identity keys of the batch that were not stored before the call.
C16_CountIsRowsAffected ==
    call.op # "" /\ call.result.raised = ""
        => /\ call.result.inserted = Cardinality(news \ before)
           /\ ~call.allow_update
                => call.result.inserted = Cardinality(HandedKeys \ KeysOf(before))

\* the identity keys the call stored that were not stored before
NewKeys == KeysOf(news) \ KeysOf(before)

\* C17: after StorageAdapter.insert stored a batch with at least one new
\* row, publish_scraped has been called exactly once, with the metadata of
\* exactly the new rows.
C17_PublishedOnceAfterStore ==
    call.op = "_process_and_upload_data" /\ call.result.raised = "" /\ NewKeys # {}
        => /\ Len(publisher.calls) = 1
           /\ {publisher.last.inserted_ids[i].unique_id :
                    i \in DOMAIN publisher.last.inserted_ids} = NewKeys

\* what the database insert does with the list handed to it
DatabaseInsert == PostgresManager_insert(before, Handed[1], call.allow_update, 1)

\* C18: publish_scraped is not called when the database insert added no
\* new row, when every record was skipped (StorageAdapter.insert returns 0
\* and leaves the table alone) or when the database insert raises; then
\* the error reaches the caller of StorageAdapter.insert and nothing is
\* stored.
C18_NoNotificationWithoutInsert ==
    call.op = "_process_and_upload_data"
        => /\ NewKeys = {} \/ Handed = <<>> \/ call.result.raised # ""
                => publisher.calls = <<>>
           /\ Handed = <<>>
                => call.result.raised = "" /\ call.result.inserted = 0 /\ news = before
           /\ Handed # <<>> /\ DatabaseInsert.raised # ""
                => call.result.raised = DatabaseInsert.raised /\ news = before

C18_Witness ==
    /\ call.op = "_process_and_upload_data"
    /\ Handed # <<>>
    /\ DatabaseInsert.raised = "ValueError"
    /\ call.result.raised = "ValueError"
    /\ publisher.calls = <<>>
    /\ before # {}

----------------------------------------------------------------------------
(* Claims about EventPublisher.publish_scraped, checked under SpecPublish  *)

\* the last publish_scraped call
Last == publisher.last

\* C19: publish_scraped does not raise; an enabled publisher makes one
\* attempt per record, in input order, whatever attempts fail (a record
\* with a unique_id is sent to the client), and the number returned is the
\* number of attempts that did not fail, between 0 and the number of
\* records.
C19_PublishNeverRaises ==
    publisher.calls # <<>>
        => /\ Last.raised = ""
           /\ publisher.enabled
                => /\ Len(Last.attempts) = Len(Last.inserted_ids)
                   /\ \A i \in DOMAIN Last.inserted_ids :
                        "unique_id" \in DOMAIN Last.inserted_ids[i]
                            => /\ Last.attempts[i].sent
                               /\ Last.attempts[i].message.unique_id
                                    = Last.inserted_ids[i].unique_id
                               /\ Last.attempts[i].ok = ~Last.failures[i]
           /\ Last.returned = Cardinality({i \in DOMAIN Last.attempts : Last.attempts[i].ok})
           /\ Last.returned \in 0..Len(Last.inserted_ids)

C19_Witness ==
    /\ publisher.enabled
    /\ Len(Last.inserted_ids) = 2
    /\ Last.failures = <<TRUE, FALSE>>
    /\ Last.attempts[2].sent
    /\ Last.returned = 1

\* C20: the messages of one publish_scraped call carry the trace_id of the
\* call, and two calls that drew a trace_id drew different ones.
C20_TraceId ==
    /\ \A i \in DOMAIN Last.attempts : Last.attempts[i].trace_id = Last.trace_id
    /\ publisher.calls # <<>> => publisher.calls[Len(publisher.calls)] = Last.trace_id
    /\ Last.attempts # <<>> => Last.trace_id # ""
    /\ \A i, j \in DOMAIN publisher.calls :
            i # j /\ publisher.calls[i] # "" => publisher.calls[i] # publisher.calls[j]

C20_Witness ==
    /\ Len(publisher.calls) = 2
    /\ publisher.calls[1] # ""
    /\ Len(Last.attempts) = 2
    /\ Last.attempts[1].sent /\ Last.attempts[2].sent

\* C21: construction does not raise, whatever the transport; and when the
\* topic is not configured, the client could not be created or the list of
\* records is empty, publish_scraped returns 0, draws no trace_id and never
\* calls the client.
C21_NoOpWhenDisabled ==
    /\ publisher.init_raised = ""
    /\ publisher.calls # <<>>
            /\ (publisher.topic = "" \/ publisher.client = "None" \/ Last.inserted_ids = <<>>)
        => /\ Last.returned = 0
           /\ Last.raised = ""
           /\ Last.attempts = <<>>
           /\ Last.trace_id = ""

C21_Witness ==
    /\ publisher.topic # ""
    /\ publisher.client = "None"
    /\ Len(Last.inserted_ids) = 2
    /\ Last.failures = <<FALSE, FALSE>>
    /\ Len(publisher.calls) = 1
    /\ Last.returned = 0

\* C29: the body of every message handed to the client has exactly the
\* fields unique_id, agency_key, published_at and scraped_at, all texts:
\* the record's unique_id, its agency_key or "" when it has none, and as
\* published_at the ISO text of a datetime, a text unchanged, or "" for
\* None; the message carries the call's trace_id and event_version "1.0".
C29_Payload ==
    \A i \in DOMAIN Last.attempts : Last.attempts[i].sent
        => LET article == Last.inserted_ids[i]
               body == Last.attempts[i].message
           IN  /\ DOMAIN body = {"unique_id", "agency_key", "published_at", "scraped_at"}
               /\ \A field \in DOMAIN body : body[field][1] = "str"
               /\ body.unique_id = article.unique_id
               /\ body.agency_key = IF "agency_key" \in DOMAIN article
                                    THEN article.agency_key ELSE Str("")
               /\ body.published_at[2] = article.published_at[2]
               /\ body.scraped_at[2] # ""
               /\ Last.attempts[i].trace_id # ""
               /\ Last.attempts[i].event_version = "1.0"

C29_Witness ==
    /\ Len(Last.attempts) = 2
    /\ Last.attempts[1].sent /\ Last.attempts[2].sent
    /\ "agency_key" \notin DOMAIN Last.inserted_ids[1]
    /\ Last.attempts[1].message.agency_key = Str("")
    /\ Last.inserted_ids[2].published_at[1] = "datetime"
    /\ Last.attempts[2].message.published_at = Str("2026-01-01T12:00:00+00:00")

----------------------------------------------------------------------------
(* The publication timestamp of an article and its identity key over       *)
(* repeated runs: WebScraper.extract_news_info resolves published_at by a   *)
(* chain of strategies, the managers hash it into unique_id                 *)

MaxRuns == 2

\* datetime(year, month, day, hour, minute, second, tzinfo=brasilia_tz)
datetime(year, month, day, hour, minute, second) ==
    [year |-> year, month |-> month, day |-> day,
     hour |-> hour, minute |-> minute, second |-> second]

\* the None returned by a strategy that found no timestamp
NoDatetime == datetime(0, 0, 0, 0, 0, 0)

\* "%02d"
pad2(n) == IF n < 10 THEN "0" \o ToString(n) ELSE ToString(n)

\* datetime.isoformat() of a value in the fixed offset UTC-3
isoformat(dt) ==
    ToString(dt.year) \o "-" \o pad2(dt.month) \o "-" \o pad2(dt.day) \o "T"
        \o pad2(dt.hour) \o ":" \o pad2(dt.minute) \o ":" \o pad2(dt.second) \o "-03:00"

\* a text of the page: the pattern it is written in and its numbers in the
\* order they are written
Text(format, fields) == [format |-> format, fields |-> fields]

\* _extract_datetime_from_jsonld: datePublished of the embedded JSON-LD
extract_datetime_from_jsonld(jsonld) ==
    IF jsonld.format = "YYYY-MM-DDTHH:MM:SS-03:00"
    THEN datetime(jsonld.fields[1], jsonld.fields[2], jsonld.fields[3],
                  jsonld.fields[4], jsonld.fields[5], jsonld.fields[6])
    ELSE NoDatetime

\* _parse_datetime_from_text(text, brasilia_tz): DD/MM/YYYY HHhMM and
\* DD/MM/YYYY - HH:MM
parse_datetime_from_text(text) ==
    IF text.format \in {"DD/MM/YYYY HHhMM", "DD/MM/YYYY - HH:MM"}
    THEN datetime(text.fields[3], text.fields[2], text.fields[1],
                  text.fields[4], text.fields[5], 0)
    ELSE NoDatetime

\* extract_date(item): the date of the listing tile, DD/MM/YYYY
extract_date(tile) ==
    IF tile.format = "DD/MM/YYYY"
    THEN datetime(tile.fields[3], tile.fields[2], tile.fields[1], 0, 0, 0)
    ELSE NoDatetime

\* get_article_content: published_dt of the article page, JSON-LD first,
\* then the label text
get_article_content(page) ==
    LET jsonld == extract_datetime_from_jsonld(page.jsonld)
    IN  IF jsonld # NoDatetime THEN [published_dt |-> jsonld, strategy |-> "jsonld"]
        ELSE IF parse_datetime_from_text(page.label) # NoDatetime
             THEN [published_dt |-> parse_datetime_from_text(page.label),
                   strategy |-> "text"]
             ELSE [published_dt |-> NoDatetime, strategy |-> "none"]

extract_news_info_listing_first(page) ==
    IF extract_date(page.tile) # NoDatetime
    THEN [published_dt |-> extract_date(page.tile), strategy |-> "listing"]
    ELSE get_article_content(page)

\* extract_news_info: the listing date at midnight when the article page
\* gave no datetime
extract_news_info(page) ==
    LET article == get_article_content(page)
    IN  IF article.published_dt = NoDatetime /\ extract_date(page.tile) # NoDatetime
        THEN [published_dt |-> extract_date(page.tile), strategy |-> "listing"]
        ELSE article

\* the articles of the listing: title and moment of publication
Articles ==
    {[title |-> "t1", published |-> datetime(2026, 2, 10, 17, 5, 7)],
     [title |-> "t3", published |-> datetime(2026, 2, 11, 9, 30, 0)]}

\* what one fetch of an article can show: JSON-LD absent, malformed or
\* valid; the label absent or in one of its two formats; the tile with or
\* without its date
Pages(article) ==
    LET p == article.published
    IN  {[jsonld |-> jsonld, label |-> label, tile |-> tile] :
            jsonld \in {Text("absent", <<>>), Text("malformed", <<>>),
                        Text("YYYY-MM-DDTHH:MM:SS-03:00",
                             <<p.year, p.month, p.day, p.hour, p.minute, p.second>>)},
            label \in {Text("Publicado em", <<>>),
                       Text("DD/MM/YYYY HHhMM", <<p.day, p.month, p.year, p.hour, p.minute>>),
                       Text("DD/MM/YYYY - HH:MM", <<p.day, p.month, p.year, p.hour, p.minute>>)},
            tile \in {Text("absent", <<>>), Text("DD/MM/YYYY", <<p.day, p.month, p.year>>)}}

\* the record extract_news_info appends to news_data
NewsData(title, published_dt) ==
    [Item("ScrapeManager", SourceUrl("ScrapeManager"), title, "body")
        EXCEPT !.published_at = IF published_dt = NoDatetime THEN PyNone
                                ELSE Datetime(isoformat(published_dt))]

\* EBCScrapeManager._generate_unique_id
EBCScrapeManager_generate_unique_id(agency_name, published_at_value, title) ==
    LET ebc_date_str == IF published_at_value[1] = "NoneType" THEN "None"
                        ELSE published_at_value[2]
        hash_input == agency_name \o "_" \o ebc_date_str \o "_" \o title
    IN  md5(hash_input)

\* the arguments of _generate_unique_id seen besides extracted articles: a
\* missing agency and date, a date as text and a datetime.date
KeyInputs ==
    {[agency |-> Str(""), published_at |-> PyNone, title |-> Str("t1")],
     [agency |-> Str("mec"), published_at |-> Str("2026-02-10"), title |-> Str("t1")],
     [agency |-> Str("mec"), published_at |-> <<"date", "2026-02-10">>, title |-> Str("t1")]}

\* what _generate_unique_id reads of an item
KeyOf(item) ==
    [agency |-> Get(item, "agency", Str("")),
     published_at |-> Get(item, "published_at", Str("")),
     title |-> Get(item, "title", Str(""))]

KeyInit ==
    /\ news = {}
    /\ txn = [p \in Conns |-> Idle]
    /\ locks = [k \in UniqueIds |-> 0]
    /\ clock = 0
    /\ request = NoRequest
    /\ world \in Articles
    /\ before = {}
    /\ run = <<>>
    /\ response = NoResponse
    /\ call = NoCall
    /\ publisher = NoPublisher

\* one run of the gov.br scraper over the listing: the article is
\* extracted from what its page shows in this run, next to a second news
\* of the listing, and the run's data is preprocessed and stored
ExtractAndStore(page) ==
    LET resolved == extract_news_info(page)
        data == <<NewsData(world.title, resolved.published_dt),
                  Item("ScrapeManager", SourceUrl("ScrapeManager"), "t2", "body")>>
        result == process_and_upload_data("ScrapeManager", news, data, FALSE, 1)
    IN  /\ run' = Append(run, [page |-> page,
                               strategy |-> resolved.strategy,
                               data |-> data,
                               unique_id |-> preprocess_data(data)["unique_id"],
                               raised |-> result.raised])
        /\ news' = result.table
        /\ clock' = clock + 1
        /\ UNCHANGED <<txn, locks, request, world, before, response, gatewayVars>>

ScrapeNews ==
    /\ Len(run) < MaxRuns
    /\ \E page \in Pages(world) : ExtractAndStore(page)

\* one call of _generate_unique_id of either manager, on arguments of
\* KeyInputs or on those of an article extracted before
GenerateUniqueId ==
    \E manager \in {"ScrapeManager", "EBCScrapeManager"} :
        \E key \in KeyInputs \cup {KeyOf(run[i].data[1]) : i \in DOMAIN run} :
            /\ call' = [op |-> "_generate_unique_id", manager |-> manager,
                        items |-> <<key>>, allow_update |-> FALSE,
                        result |-> IF manager = "ScrapeManager"
                                   THEN generate_unique_id(key.agency[2], key.published_at,
                                                           key.title[2])
                                   ELSE EBCScrapeManager_generate_unique_id(
                                            key.agency[2], key.published_at, key.title[2])]
            /\ UNCHANGED <<storeVars, apiVars, publisher>>

KeyNext ==
    \/ ScrapeNews
    \/ GenerateUniqueId

SpecKey == KeyInit /\ [][KeyNext]_vars

----------------------------------------------------------------------------
(* Claims checked on the runs of SpecKey                                    *)

\* the items preprocessed so far, as <<run, position>>
Preprocessed == {<<i, a>> : i \in DOMAIN run, a \in 1..2}

KeysAgree ==
    /\ \A i \in DOMAIN run :
            /\ Len(run[i].unique_id) = Len(run[i].data)
            /\ \A a \in DOMAIN run[i].data : run[i].unique_id[a][1] = "md5"
    /\ \A x, y \in {z \in Preprocessed : z[2] \in DOMAIN run[z[1]].data} :
            KeyOf(run[x[1]].data[x[2]]) = KeyOf(run[y[1]].data[y[2]])
                => run[x[1]].unique_id[x[2]] = run[y[1]].unique_id[y[2]]
    /\ call.op = "_generate_unique_id"
            => \A x \in {z \in Preprocessed : z[2] \in DOMAIN run[z[1]].data} :
                    KeyOf(run[x[1]].data[x[2]]) = call.items[1]
                        => run[x[1]].unique_id[x[2]] = call.result

SameKeyOnNextCall ==
    (call.op = "_generate_unique_id" /\ call'.items = call.items)
        => call'.result = call.result

\* C22: the identity key of given (agency, publication date, title) is the
\* same on every call, in every run and from either manager's
\* _generate_unique_id, and _preprocess_data gives every item of its input
\* the key of its three values
C22_KeyDeterminism == []KeysAgree /\ [][SameKeyOnNextCall]_vars

\* two runs resolved the same timestamp for the article, and the EBC
\* manager's function was then called on the same three values
C22_Witness ==
    /\ Len(run) = 2
    /\ KeyOf(run[1].data[1]) = KeyOf(run[2].data[1])
    /\ call.op = "_generate_unique_id"
    /\ call.manager = "EBCScrapeManager"
    /\ call.items[1] = KeyOf(run[1].data[1])
    /\ call.result = run[2].unique_id[1]

\* the rows stored for the article of the listing
ArticleRows == {r \in news : r.title = Str(world.title)}

\* C23: every run that resolved the article's timestamp, by whichever
\* strategy, computes the same identity key, and the article never has a
\* second row
C23_SameKeyOnEveryRun ==
    /\ \A i, j \in DOMAIN run :
            (run[i].strategy # "none" /\ run[j].strategy # "none")
                => run[i].unique_id[1] = run[j].unique_id[1]
    /\ Cardinality(ArticleRows) <= 1

\* the timestamp run i resolved for the article
ResolvedAt(i) == run[i].data[1].published_at

MetadataParses(i) == run[i].page.jsonld.format = "YYYY-MM-DDTHH:MM:SS-03:00"
LabelParses(i) == run[i].page.label.format \in {"DD/MM/YYYY HHhMM", "DD/MM/YYYY - HH:MM"}
TileDated(i) == run[i].page.tile.format = "DD/MM/YYYY"

\* C24: the resolved timestamp is the structured-metadata value when it
\* parses, else the label-text value at UTC-3, else the listing-tile date
\* at 00:00 UTC-3, else null; the listing date is never used when the
\* article page gave a datetime
C24_FallbackChain ==
    \A i \in DOMAIN run :
        LET p == world.published
        IN  /\ MetadataParses(i)
                => /\ ResolvedAt(i) = Datetime(isoformat(p))
                   /\ run[i].strategy = "jsonld"
            /\ (~MetadataParses(i) /\ LabelParses(i))
                => /\ ResolvedAt(i) = Datetime(isoformat([p EXCEPT !.second = 0]))
                   /\ run[i].strategy = "text"
                   /\ world.title = "t1" => ResolvedAt(i) = Datetime("2026-02-10T17:05:00-03:00")
            /\ (~MetadataParses(i) /\ ~LabelParses(i) /\ TileDated(i))
                => /\ ResolvedAt(i) = Datetime(isoformat(datetime(p.year, p.month, p.day, 0, 0, 0)))
                   /\ run[i].strategy = "listing"
                   /\ world.title = "t3" => ResolvedAt(i) = Datetime("2026-02-11T00:00:00-03:00")
            /\ (~MetadataParses(i) /\ ~LabelParses(i) /\ ~TileDated(i))
                => ResolvedAt(i) = PyNone /\ run[i].strategy = "none"
            /\ run[i].strategy = "listing" => ~MetadataParses(i) /\ ~LabelParses(i)

\* a run with malformed metadata and a dated tile that read the label, and
\* a run that found only the listing-tile date 11/02/2026
C24_Witness ==
    /\ Len(run) = 2
    /\ world.title = "t3"
    /\ run[1].page.jsonld.format = "malformed" /\ LabelParses(1) /\ TileDated(1)
    /\ ResolvedAt(1) = Datetime("2026-02-11T09:30:00-03:00")
    /\ ~MetadataParses(2) /\ ~LabelParses(2) /\ TileDated(2)
    /\ ResolvedAt(2) = Datetime("2026-02-11T00:00:00-03:00")

----------------------------------------------------------------------------
(* PostgresManager shared by concurrent callers: the connection pool and    *)
(* the cache of agencies and themes, one step per statement that can block  *)
(* or raise                                                                 *)

MaxOps == 2

\* the threads calling into one PostgresManager
Threads == {"t1", "t2"}

\* a thread outside StorageAdapter and PostgresManager: the operation and
\* the PostgresManager method it is in, whether it has loaded the cache and
\* the state of the cache at its last record conversion
NoFrame ==
    [op |-> "", method |-> "", pc |-> "idle", cursor |-> "unbound", raised |-> "",
     loaded |-> FALSE, lookup |-> ""]

\* PostgresManager.__init__: an empty cache, every connection in the pool.
\* The maps hold the number of the query that filled them, 0 when empty.
NewManager ==
    [exists |-> TRUE, checked_out |-> 0, cache_loaded |-> FALSE,
     agencies |-> 0, themes |-> 0, agencies_by_key |-> 0, themes_by_code |-> 0,
     started |-> 0]

\* a StorageAdapter whose PostgresManager was handed to the constructor, or
\* StorageAdapter() before its first use of self.postgres
PoolInit ==
    /\ news \in Tables
    /\ txn = [p \in Conns |-> Idle]
    /\ locks = [k \in UniqueIds |-> 0]
    /\ clock = 0
    /\ request = NoRequest
    /\ world = <<>>
    /\ before = news
    /\ run = [t \in Threads |-> NoFrame]
    /\ response = NoResponse
    /\ call \in {NewManager, [NewManager EXCEPT !.exists = FALSE]}
    /\ publisher = NoPublisher

PoolUnchanged == UNCHANGED <<txn, locks, clock, apiVarsButRun, publisher>>

\* the thread's frame becomes f, the manager m
Step(t, f, m) ==
    /\ run' = [run EXCEPT ![t] = f]
    /\ call' = m
    /\ news' = news
    /\ PoolUnchanged

\* the method of thread t ends, raising error or returning: load_cache
\* returns into the postgres property of StorageAdapter.insert, otherwise
\* the operation is over
Return(t, error, m) ==
    IF run[t].op = "StorageAdapter.insert" /\ run[t].method = "load_cache" /\ error = ""
    THEN Step(t, [run[t] EXCEPT !.method = "", !.pc = "convert", !.cursor = "unbound"], m)
    ELSE Step(t, [NoFrame EXCEPT !.raised = error, !.loaded = run[t].loaded,
                                 !.lookup = run[t].lookup], m)

\* a thread calls load_cache() or insert(news) with a non-empty list on the
\* manager, or insert(new_data) on the adapter
Call(t) ==
    /\ run[t].pc = "idle"
    /\ call.started < MaxOps
    /\ \E op \in {"load_cache", "insert", "StorageAdapter.insert"} :
            /\ op # "StorageAdapter.insert" => call.exists
            /\ Step(t, [NoFrame EXCEPT !.op = op, !.loaded = run[t].loaded,
                                       !.lookup = run[t].lookup,
                                       !.method = IF op = "StorageAdapter.insert" THEN ""
                                                  ELSE op,
                                       !.pc = CASE op = "load_cache" -> "if_cache_loaded"
                                                [] op = "insert" -> "get_connection"
                                                [] OTHER -> "postgres"],
                    [call EXCEPT !.started = @ + 1])

\* StorageAdapter.postgres: "if self._postgres_manager is None:" create the
\* manager and call its load_cache()
Postgres(t) ==
    /\ run[t].pc = "postgres"
    /\ IF call.exists
       THEN Step(t, [run[t] EXCEPT !.pc = "convert"], call)
       ELSE Step(t, [run[t] EXCEPT !.method = "load_cache", !.pc = "if_cache_loaded"],
                 [call EXCEPT !.exists = TRUE])

\* _convert_to_news_insert: self.postgres._agencies_by_key.get(agency_key)
\* on the cache as it is; with no agency in it every record is skipped and
\* insert returns 0, else self.postgres.insert(news_list) is called
Convert(t) ==
    /\ run[t].pc = "convert"
    /\ LET lookup == IF call.cache_loaded THEN "loaded"
                     ELSE IF call.agencies_by_key = 0 THEN "empty" ELSE "partial"
       IN  IF call.agencies_by_key = 0
           THEN Step(t, [NoFrame EXCEPT !.loaded = run[t].loaded, !.lookup = lookup], call)
           ELSE Step(t, [run[t] EXCEPT !.lookup = lookup, !.method = "insert",
                                       !.pc = "get_connection"], call)

\* load_cache: if self._cache_loaded: return
CheckCacheLoaded(t) ==
    /\ run[t].pc = "if_cache_loaded"
    /\ IF call.cache_loaded THEN Return(t, "", call)
       ELSE Step(t, [run[t] EXCEPT !.pc = "get_connection"], call)

\* conn = self.get_connection(), before the try
GetConnection(t) ==
    /\ run[t].pc = "get_connection"
    /\ \/ Step(t, [run[t] EXCEPT !.pc = "cursor"], [call EXCEPT !.checked_out = @ + 1])
       \/ Return(t, "PoolError", call)

\* an exception inside the try: insert goes to its except clause,
\* load_cache has none and goes to finally
Raise(t, error) ==
    [run[t] EXCEPT !.raised = error,
                   !.pc = IF run[t].method = "insert" THEN "rollback" ELSE "cursor.close"]

\* cursor = conn.cursor(...)
Cursor(t) ==
    /\ run[t].pc = "cursor"
    /\ \/ Step(t, [run[t] EXCEPT !.cursor = "open",
                                 !.pc = IF run[t].method = "insert" THEN "execute_values"
                                        ELSE "agencies"], call)
       \/ Step(t, Raise(t, "OperationalError"), call)

\* cursor.execute("SELECT * FROM agencies") and the entries of
\* _agencies_by_key assigned from its rows
SelectAgencies(t) ==
    /\ run[t].pc = "agencies"
    /\ \/ Step(t, [run[t] EXCEPT !.pc = "themes"],
               [call EXCEPT !.agencies = @ + 1, !.agencies_by_key = call.agencies + 1])
       \/ Step(t, Raise(t, "OperationalError"), call)

\* cursor.execute("SELECT * FROM themes") and the entries of
\* _themes_by_code assigned from its rows
SelectThemes(t) ==
    /\ run[t].pc = "themes"
    /\ \/ Step(t, [run[t] EXCEPT !.pc = "cache_loaded"],
               [call EXCEPT !.themes = @ + 1, !.themes_by_code = call.themes + 1])
       \/ Step(t, Raise(t, "OperationalError"), call)

\* self._cache_loaded = True
SetCacheLoaded(t) ==
    /\ run[t].pc = "cache_loaded"
    /\ Step(t, [run[t] EXCEPT !.pc = "cursor.close", !.loaded = TRUE],
            [call EXCEPT !.cache_loaded = TRUE])

\* execute_values(cursor, insert_query, values)
ExecuteValues(t) ==
    /\ run[t].pc = "execute_values"
    /\ \/ Step(t, [run[t] EXCEPT !.pc = "commit"], call)
       \/ Step(t, Raise(t, "OperationalError"), call)

\* conn.commit(): the rows of the statement reach the table
Commit(t) ==
    /\ run[t].pc = "commit"
    /\ \/ /\ run' = [run EXCEPT ![t].pc = "cursor.close"]
          /\ news' = PostgresManager_insert(news, <<NewsOf(1)>>, FALSE, 1).table
          /\ call' = call
          /\ PoolUnchanged
       \/ Step(t, Raise(t, "OperationalError"), call)

\* except Exception: conn.rollback(); raise
Rollback(t) ==
    /\ run[t].pc = "rollback"
    /\ \/ Step(t, [run[t] EXCEPT !.pc = "cursor.close"], call)
       \/ Step(t, [run[t] EXCEPT !.pc = "cursor.close", !.raised = "InterfaceError"], call)

\* finally: cursor.close(); the name is unbound when conn.cursor() raised
CloseCursor(t) ==
    /\ run[t].pc = "cursor.close"
    /\ IF run[t].cursor = "unbound" THEN Return(t, "UnboundLocalError", call)
       ELSE Step(t, [run[t] EXCEPT !.cursor = "closed", !.pc = "put_connection"], call)

\* finally: self.put_connection(conn)
PutConnection(t) ==
    /\ run[t].pc = "put_connection"
    /\ Return(t, run[t].raised, [call EXCEPT !.checked_out = @ - 1])

PoolNext ==
    \E t \in Threads :
        \/ Call(t)
        \/ Postgres(t)
        \/ Convert(t)
        \/ CheckCacheLoaded(t)
        \/ GetConnection(t)
        \/ Cursor(t)
        \/ SelectAgencies(t)
        \/ SelectThemes(t)
        \/ SetCacheLoaded(t)
        \/ ExecuteValues(t)
        \/ Commit(t)
        \/ Rollback(t)
        \/ CloseCursor(t)
        \/ PutConnection(t)

SpecPool == PoolInit /\ [][PoolNext]_vars

----------------------------------------------------------------------------
(* Claims checked on the threads of SpecPool                                *)

\* C25: whatever the interleaving of the callers of load_cache, the
\* agencies and themes tables are queried at most once in the lifetime of
\* the PostgresManager and at most one caller performs the load
C25_SingleCacheLoad ==
    /\ call.agencies <= 1
    /\ call.themes <= 1
    /\ Cardinality({t \in Threads : run[t].loaded}) <= 1

\* C30: when no thread is inside load_cache or insert, every connection
\* taken from the pool has been returned to it
C30_CheckoutMatchedByCheckin ==
    (\A t \in Threads : run[t].pc = "idle") => call.checked_out = 0

----------------------------------------------------------------------------
(* Claims checked on the requests of Spec: failures of the store step       *)

\* the identity keys of the rows the items of the source at url make
SourceKeys(url) ==
    KeysOf(process_and_upload_data(Manager, {}, Extracted(url).data, FALSE, 0).table)

\* the store step of the source at url raises
StoreFails(url) == world[url] \in {"nul", "rejected"}

\* C26: in sequential mode a store step that raises is recorded as an
\* error entry of its source, every source is still extracted, the sources
\* with news before and after it are stored, and the rows stored before
\* stay in the table
C26_StoreFailureIsolation ==
    (Done /\ request.sequential) =>
        /\ run.raised = ""
        /\ run.called = run.webscrapers
        /\ KeysOf(before) \subseteq KeysOf(news)
        /\ \A b \in 1..Len(run.webscrapers) :
                LET url == run.webscrapers[b]
                IN  /\ StoreFails(url) =>
                            \E e \in 1..Len(run.errors) :
                                /\ run.errors[e].agency = ReportedAs(Manager, url)
                                /\ run.errors[e].error \in StorageErrors
                    /\ world[url] = "news" =>
                            /\ SourceKeys(url) # {}
                            /\ SourceKeys(url) \subseteq KeysOf(news)
                            /\ ReportedAs(Manager, url) \in Elements(run.agencies_processed)

\* three sources in sequential mode: the first and the third have news and
\* are stored, the store step of the second raises
C26_Witness ==
    /\ Done
    /\ request.sequential
    /\ Len(run.webscrapers) = 3
    /\ world[run.webscrapers[1]] = "news"
    /\ StoreFails(run.webscrapers[2])
    /\ world[run.webscrapers[3]] = "news"
    /\ Len(run.errors) = 1
    /\ run.errors[1].error \in StorageErrors
    /\ SourceKeys(run.webscrapers[1]) \cup SourceKeys(run.webscrapers[3]) \subseteq KeysOf(news)
    /\ Len(run.agencies_processed) = 2

\* what resolving the requested keys gave
ResolvedKeys == ResolveUrls(FileOf(Manager), request.given, request.agencies)

\* the bulk store step can raise an error run_scraper does not catch: the
\* table refuses a value, or one statement updates a row twice
BulkStoreCanRaise ==
    /\ ~request.sequential
    /\ \E url \in Elements(run.webscrapers) :
            \/ world[url] = "rejected"
            \/ /\ request.allow_update
               /\ Count(run.webscrapers, url) > 1
               /\ Extracted(url).data # <<>>

\* C27: run_scraper raises only when the storage layer raised; a key that
\* does not resolve and an extraction that throws are entries of errors,
\* an item that fails validation is dropped, and in each case every
\* resolved source is still extracted
C27_PropagationPolicy ==
    Done =>
        /\ run.raised # "" =>
                /\ run.raised \in StorageErrors
                /\ BulkStoreCanRaise
        /\ run.webscrapers = ResolvedKeys.all_urls
        /\ run.called = run.webscrapers
        /\ \A i \in 1..Len(ResolvedKeys.errors) : run.errors[i] = ResolvedKeys.errors[i]
        /\ \A url \in Elements(run.webscrapers) :
                /\ world[url] = "raise" =>
                        \E e \in 1..Len(run.errors) :
                            run.errors[e] = AgencyError(ReportedAs(Manager, url), "ScrapingError")
                /\ world[url] = "undated" =>
                        /\ ReportedAs(Manager, url) \in Elements(run.agencies_processed)
                        /\ \A r \in news : r.title # Str("t5")
                        /\ \A e \in 1..Len(run.errors) :
                                run.errors[e].agency = ReportedAs(Manager, url)
                                    => run.errors[e].error \in StorageErrors

\* a bulk run that returns: one requested key is unknown, one source's
\* extraction throws, one source shows an undated item and has its dated
\* item stored
C27_Witness ==
    /\ Done
    /\ ~request.sequential
    /\ run.raised = ""
    /\ ResolvedKeys.errors # <<>>
    /\ \E u1, u2 \in Elements(run.webscrapers) :
            /\ world[u1] = "raise"
            /\ world[u2] = "undated"
            /\ SourceKeys(u2) # {}
            /\ SourceKeys(u2) \subseteq KeysOf(news)
    /\ Len(run.errors) = 2
    /\ response.status_code = 200

\* the source keys of the run: the keys requested and the keys the
\* configuration file gives the resolved sources
RunSourceKeys ==
    Elements(request.agencies) \cup {agency(url) : url \in Elements(run.webscrapers)}

\* C28: every entry of agencies_processed and the source of every entry of
\* errors that run_scraper returns is the source key of a requested or
\* resolved source
C28_MetricsNameSourceKeys ==
    (Done /\ run.raised = "") =>
        /\ Elements(run.agencies_processed) \subseteq RunSourceKeys
        /\ Elements(ErrorLabels) \subseteq RunSourceKeys

----------------------------------------------------------------------------
(* Claims checked on the transactions of SpecStore: failing batches        *)

\* a call that raised holds no row lock
RaisedHoldsNothing ==
    \A p \in Conns : txn[p].pc = "raised" => \A k \in UniqueIds : locks[k] # p

\* the step in which a call raises leaves the table as it is and hands an
\* error to the caller; the table changes only in the commit of a call
\* that returns
RaiseWritesNothing ==
    /\ \A p \in Conns :
            (txn[p].pc # "raised" /\ txn'[p].pc = "raised")
                => /\ news' = news
                   /\ txn'[p].st.error # ""
    /\ news' # news =>
            \E p \in Conns : txn[p].pc = "exec" /\ txn'[p].pc = "returned"

\* C31: when PostgresManager.insert raises, its transaction is rolled
\* back: no step of the call changed the table, however many rows of the
\* batch had been executed, and the error reaches the caller
C31_BatchAtomicity == []RaisedHoldsNothing /\ [][RaiseWritesNothing]_vars

\* a call raised after the first row of its two-row batch was executed,
\* and that row is not in the table
C31_Witness ==
    \E p \in Conns :
        /\ txn[p].pc = "raised"
        /\ Len(txn[p].values) = 2
        /\ txn[p].i = 2
        /\ txn[p].st.error = "OperationalError"
        /\ txn[p].values[1].unique_id \notin txn[p].before
        /\ txn[p].values[1].unique_id \notin KeysOf(news)

\* a step leaves the maps of a cache that is marked loaded as they are
LoadedCacheUntouched ==
    call.cache_loaded =>
        /\ call'.agencies_by_key = call.agencies_by_key
        /\ call'.themes_by_code = call.themes_by_code

\* C32: once the cache is marked loaded, no step of a load_cache call, of
\* an insert or of a record conversion, in any interleaving, adds, removes
\* or replaces an entry of the agency or theme maps
C32_LoadedCacheReadOnly == [][LoadedCacheUntouched]_vars

\* C35: whenever StorageAdapter resolves agency keys and theme codes, the
\* cache of its PostgresManager has been completely loaded: no record
\* conversion reads an empty or partially filled cache, also after a
\* failed load_cache and with a manager handed to the constructor
C35_ResolvedAgainstLoadedCache ==
    \A t \in Threads : run[t].lookup \in {"", "loaded"}

----------------------------------------------------------------------------
(* _preprocess_data and _convert_ebc_to_govbr_format called on their own   *)

\* the dictionaries handed to the two functions: the news_data of
\* EBCWebScraper with a programme name ("tv"), with an empty one ("ab"),
\* with a blank one ("blank"), without the key ("no_lead"), the three-key
\* dictionary of the unit tests ("short"), the same with the error marker
\* ("marked") or without a title ("no_title"), an item of WebScraper
\* ("govbr"), one whose title has an underscore ("t1_t2") and one whose
\* date is a text with an underscore ("t2")
RawShapes ==
    {"tv", "ab", "blank", "no_lead", "short", "marked", "no_title", "govbr", "t1_t2", "t2"}

news_data(title, lead) ==
    [title |-> Str(title), url |-> Str("https://tvbrasil.ebc.com.br/" \o title),
     source |-> Str(""), date |-> Str("02/02/2026 - 23:00"),
     published_datetime |-> Datetime("2026-02-10T17:05:00-03:00"),
     updated_datetime |-> PyNone, tags |-> <<"list", "fronteira">>,
     editorial_lead |-> Str(lead), content |-> Str("body"), image |-> Str(""),
     video_url |-> Str(""), agency |-> Str("tvbrasil"), error |-> Str("")]

Without(item, key) == [k \in DOMAIN item \ {key} |-> item[k]]

RawItem(shape) ==
    LET short == [title |-> Str(IF shape = "no_title" THEN "" ELSE shape),
                  url |-> Str("https://example.com/" \o shape), content |-> Str("body")]
    IN  CASE shape = "tv" -> news_data(shape, "Caminhos da Reportagem")
          [] shape = "ab" -> news_data(shape, "")
          [] shape = "blank" -> news_data(shape, " ")
          [] shape = "no_lead" -> Without(news_data(shape, ""), "editorial_lead")
          [] shape = "marked" ->
                [k \in DOMAIN short \cup {"error"} |->
                    IF k = "error" THEN Str("Failed") ELSE short[k]]
          [] shape = "govbr" ->
                Item("ScrapeManager", SourceUrl("ScrapeManager"), shape, "body")
          [] shape \in {"t1_t2", "t2"} ->
                [Item("ScrapeManager", SourceUrl("ScrapeManager"), shape, "body")
                    EXCEPT !.published_at =
                        Str(IF shape = "t2" THEN "2026-02-10_t1" ELSE "2026-02-10")]
          [] OTHER -> short

RawLists ==
    {[i \in DOMAIN shapes |-> RawItem(shapes[i])] : shapes \in SeqsUpTo(RawShapes, MaxItems)}

NoReturn == [raised |-> "", value |-> <<>>]

NormalizeInit ==
    /\ news = {}
    /\ txn = [p \in Conns |-> Idle]
    /\ locks = [k \in UniqueIds |-> 0]
    /\ clock = 0
    /\ request = NoRequest
    /\ world \in RawLists
    /\ before = {}
    /\ run = NoRun
    /\ response = NoResponse
    /\ call = [op |-> "", manager |-> "", result |-> NoReturn]
    /\ publisher = NoPublisher

\* manager._preprocess_data(data): data[0] of ScrapeManager raises on an
\* empty list
PreprocessData(manager) ==
    /\ call.op = ""
    /\ call' = [op |-> "_preprocess_data", manager |-> manager,
                result |-> IF manager = "ScrapeManager" /\ world = <<>>
                           THEN [NoReturn EXCEPT !.raised = "IndexError"]
                           ELSE [NoReturn EXCEPT !.value = preprocess_data(world)]]
    /\ UNCHANGED <<storeVars, apiVars, publisher>>

\* EBCScrapeManager._convert_ebc_to_govbr_format(ebc_data)
ConvertEbcToGovbrFormat ==
    /\ call.op = ""
    /\ call' = [op |-> "_convert_ebc_to_govbr_format", manager |-> "EBCScrapeManager",
                result |-> [NoReturn EXCEPT
                                !.value = convert_ebc_to_govbr_format(world, 1)]]
    /\ UNCHANGED <<storeVars, apiVars, publisher>>

NormalizeNext ==
    \/ PreprocessData("ScrapeManager")
    \/ PreprocessData("EBCScrapeManager")
    \/ ConvertEbcToGovbrFormat

SpecNormalize == NormalizeInit /\ [][NormalizeNext]_vars

\* the fields of the items handed to the call
InputKeys == UNION {DOMAIN world[i] : i \in 1..Len(world)}

Columns == call.result.value

\* C33: _preprocess_data returns columns that all have as many values as
\* there are input items, value i of every column is the value of item i
\* (None where the item has no such field), and every field of any input
\* item is a column.
C33_NormalizationComplete ==
    call.op = "_preprocess_data"
        => /\ call.result.raised = ""
           /\ InputKeys \subseteq DOMAIN Columns
           /\ \A key \in DOMAIN Columns :
                /\ Len(Columns[key]) = Len(world)
                /\ \A i \in 1..Len(world) :
                        key # "unique_id" => Columns[key][i] = Get(world[i], key, PyNone)

Converted == call.result.value

EbcKeys ==
    {"title", "url", "published_at", "updated_datetime", "category", "tags",
     "editorial_lead", "subtitle", "content", "image", "video_url", "agency",
     "extracted_at"}

\* the output is made of input items, in their order: there are positions
\* p1 < p2 < ... of the input whose URLs are those of the output
RECURSIVE IsSubsequence(_, _, _, _)
IsSubsequence(out, j, in, i) ==
    IF j > Len(out) THEN TRUE
    ELSE IF i > Len(in) THEN FALSE
    ELSE IF out[j].url = Get(in[i], "url", Str("")) /\ out[j].title = Get(in[i], "title", Str(""))
    THEN IsSubsequence(out, j + 1, in, i + 1)
    ELSE IsSubsequence(out, j, in, i + 1)

FixedKeysInOrder ==
    /\ \A j \in 1..Len(Converted) : DOMAIN Converted[j] = EbcKeys
    /\ IsSubsequence(Converted, 1, world, 1)

\* the input items that are kept: no error marker, and title, URL and body
Kept == SelectSeq(world, LAMBDA item :
                    /\ ~PyTruthy(Get(item, "error", PyNone))
                    /\ PyTruthy(Get(item, "title", PyNone))
                    /\ PyTruthy(Get(item, "url", PyNone))
                    /\ PyTruthy(Get(item, "content", PyNone)))

\* C34 as stated: fixed keys, order-preserving subsequence, and the
\* editorial_lead of a record is None when the item's is empty or missing
\* and the item's own value when it is not empty.
C34_ConvertedShape_Original ==
    call.op = "_convert_ebc_to_govbr_format"
        => /\ FixedKeysInOrder
           /\ Len(Converted) = Len(Kept)
           /\ \A j \in 1..Len(Converted) :
                LET lead == Get(Kept[j], "editorial_lead", Str(""))
                IN  Converted[j].editorial_lead = IF lead = Str("") THEN PyNone ELSE lead

\* C34: every record returned by _convert_ebc_to_govbr_format has the same
\* thirteen keys, the records are input items in input order, and the
\* editorial_lead of a record is None when the item's is empty, missing or
\* blank, and the item's value without the surrounding blanks otherwise.
C34_ConvertedShape ==
    call.op = "_convert_ebc_to_govbr_format"
        => /\ FixedKeysInOrder
           /\ Len(Converted) = Len(Kept)
           /\ \A j \in 1..Len(Converted) :
                LET lead == Get(Kept[j], "editorial_lead", Str(""))
                IN  Converted[j].editorial_lead =
                        IF lead \in {Str(""), Str(" ")} THEN PyNone ELSE strip(lead)

\* a list with a programme name, a blank one and a dropped item in between
C34_Witness ==
    /\ call.op = "_convert_ebc_to_govbr_format"
    /\ Len(world) = 3 /\ Len(Converted) = 2
    /\ Converted[1].editorial_lead = Str("Caminhos da Reportagem")
    /\ Converted[2].editorial_lead = PyNone
    /\ Get(world[3], "editorial_lead", Str("")) = Str(" ")

----------------------------------------------------------------------------
(* Claims checked on the requests of Spec: the requested subset, the counts *)

\* the URLs of the sources the elements of the request list name
RequestedUrls ==
    {UrlOfKey(key) : key \in Elements(request.agencies) \cap ConfigKeys(Configured)}

\* C36: with a non-empty request list every source that is scraped is the
\* source of one of the requested keys: no element of the list, the empty
\* string included, makes run_scraper scrape a source it does not name.
C36_RequestedSubset ==
    (Done /\ request.given /\ request.agencies # <<>>) =>
        Elements(run.called) \subseteq RequestedUrls

RECURSIVE Sum(_)
Sum(counts) == IF counts = <<>> THEN 0 ELSE Head(counts) + Sum(Tail(counts))

\* C37: whenever run_scraper returns, in either mode and for either
\* allow_update, 0 <= articles_saved <= articles_scraped, and articles_saved
\* is the sum of the counts the storage insert calls of the run returned.
C37_MetricsBound ==
    (Done /\ run.raised = "") =>
        /\ 0 <= run.articles_saved
        /\ run.articles_saved <= run.articles_scraped
        /\ run.articles_saved = Sum(run.returned)

\* a sequential run with allow_update whose two store steps both returned
\* a count, one of them smaller than the number of items scraped
C37_Witness ==
    /\ Done /\ run.raised = ""
    /\ request.sequential
    /\ Len(run.returned) = 2
    /\ run.returned[1] > 0 /\ run.returned[2] > 0
    /\ run.articles_saved < run.articles_scraped

----------------------------------------------------------------------------
(* Claims checked on the calls of SpecNormalize: the text that is hashed   *)

\* the text handed to hashlib.md5 for item i of the call
HashInput(i) == Columns["unique_id"][i][2]

====
